---- MODULE Spec2Model ----
(***************************************************************************)
(* A model of the MarketSimulator core: the dispatcher (main event         *)
(* priority queue, dispatch loop, order lifecycle simulator), the strategy *)
(* worker threads with their bounded mailboxes, the latency model and the  *)
(* top-of-book store.                                                      *)
(*                                                                         *)
(* Timestamps and durations are integer nanoseconds.  Prices are integers  *)
(* in units of PRICE_EPSILON (1e-9), so that the epsilon of the limit      *)
(* comparisons is the integer 1; INVALID_PRICE (NaN) is a sentinel.        *)
(***************************************************************************)
EXTENDS Integers, Sequences, FiniteSets, TLC

VARIABLES
    historical_data,              \* the events the tick file holds, in file order
    latency_model_,               \* LatencyModel::config_
    csv_parser_,                  \* "null" before load_initial_data, then "exhausted"
    main_event_pq_,               \* the MEPQ, kept ordered by effective timestamp
    incoming_order_requests_,     \* BlockingQueue<OrderRequest>, unbounded
    strategy_runners_,            \* the registry: id, strategy, mailbox, thread
    strategy_map_,                \* id -> the runner its pointer was taken from
    current_simulation_time_,
    simulation_running_,
    next_exchange_order_id_,
    order_books_,                 \* symbol -> SimpleOrderBook
    data_feed_ended_signal_pushed,\* local of run()
    pc,                           \* position of the dispatch thread in run()
    pending,                      \* mailbox pushes the current handler has still to make
    lifecycle_log,                \* history: one record per simulate_order_lifecycle call
    pushed,                       \* history: per runner, the events queued in its mailbox
    run_no,                       \* history: which run of the simulator this is
    previous_run,                 \* history: the acks and fills the previous run emitted
    callbacks,                    \* history: per runner, the callbacks of its strategy
    end_of_feed_log,              \* history: the END_OF_DATA_FEED events pushed into the MEPQ
    queue,                        \* queue harness: the BlockingQueue under test
    threads,                      \* queue harness: what each thread is doing
    queue_history,                \* queue harness: history of the operations
    latency_calls                 \* latency harness: the calls made and what they returned

vars == << historical_data, latency_model_, csv_parser_, main_event_pq_,
           incoming_order_requests_, strategy_runners_, strategy_map_,
           current_simulation_time_, simulation_running_, next_exchange_order_id_, order_books_,
           data_feed_ended_signal_pushed, pc, pending, lifecycle_log, pushed,
           run_no, previous_run, callbacks, end_of_feed_log,
           queue, threads, queue_history, latency_calls >>

\* The variables of the simulator and those of the queue harness.
dispatcher_vars ==
    << historical_data, latency_model_, csv_parser_, main_event_pq_,
       incoming_order_requests_, strategy_runners_, strategy_map_,
       current_simulation_time_, simulation_running_, next_exchange_order_id_,
       order_books_, data_feed_ended_signal_pushed, pc, pending, lifecycle_log,
       pushed, run_no, previous_run, callbacks, end_of_feed_log >>

queue_vars == << queue, threads, queue_history >>

(***************************************************************************)
(* Bounds of the model.                                                    *)
(***************************************************************************)
MaxFeed == 2            \* events in the tick file
MaxStrategies == 2      \* registered strategies
MailboxCapacity == 3    \* capacity of a strategy mailbox (10000 in the source)
MaxQty == 2             \* quantities of the lifecycle harness
MaxPx == 2              \* prices of the lifecycle harness
MaxRuns == 2            \* runs of the simulator over the same inputs
FeedGap == 100000       \* nanoseconds between the spaced events of a feed
MaxQueueSize == 2       \* largest max_size of the queue harness (0 is unbounded)
MaxItems == 2           \* items each producer of the queue harness pushes
MaxPops == 4            \* calls the consumer of the queue harness makes
MaxMisses == 1          \* try_pop and timed_wait_and_pop calls of the consumer
MaxMatches == 2         \* orders matched between two quotes of the book harness

(***************************************************************************)
(* Program constants.                                                      *)
(***************************************************************************)
TimestampMin == -1              \* Timestamp::min(), below every event time
INVALID_PRICE == -7             \* quiet NaN
PRICE_EPSILON == 1              \* 1e-9, the unit of the model's prices
EndOfFeedDelay == 1             \* Duration(1)
ProcessOrdersInterval == 10000000   \* std::chrono::milliseconds(10)
BasicOrderQuantity == 1000
QuantityModulus == 65536        \* Quantity is unsigned and wraps; stands for 2^64
WallClockNow == 1000000000      \* a reading of std::chrono::system_clock::now()
TimestampMax == 1073741823      \* Timestamp::max(); stands for 2^63 - 1 ns

isnan(p) == p = INVALID_PRICE
Min(a, b) == IF a < b THEN a ELSE b

\* std::optional<T>
Nullopt == [has |-> FALSE, val |-> 0]
Some(v) == [has |-> TRUE, val |-> v]

Symbols == {"EURUSD", "GBPUSD"}

StrategyIds == {"S1", "S2"}
NoRunner == [runner |-> 0, dangling |-> FALSE]

\* The queue harness at rest, while the simulator runs.
QueueUnused ==
    /\ queue = [queue_ |-> <<>>, shutdown_requested_ |-> FALSE, max_size_ |-> 0]
    /\ threads = <<>>
    /\ queue_history = <<>>

\* The latency harness at rest.
LatencyUnused == latency_calls = <<>>

(***************************************************************************)
(* LatencyModel                                                            *)
(***************************************************************************)
DefaultConfig ==
    [market_data_feed_latency |-> 50000,
     strategy_processing_latency |-> 5000,
     order_network_latency_strat_to_exch |-> 20000,
     exchange_order_processing_latency |-> 10000,
     exchange_fill_processing_latency |-> 15000,
     ack_network_latency_exch_to_strat |-> 20000]

\* The configurations the model runs under: the defaults, all six durations
\* zero, fill processing equal to and faster than order processing, and one
\* nanosecond everywhere.
LatencyConfigs ==
    { DefaultConfig,
      [DefaultConfig EXCEPT !.exchange_fill_processing_latency = 10000],
      [DefaultConfig EXCEPT !.exchange_fill_processing_latency = 5000],
      [market_data_feed_latency |-> 0, strategy_processing_latency |-> 0,
       order_network_latency_strat_to_exch |-> 0,
       exchange_order_processing_latency |-> 0,
       exchange_fill_processing_latency |-> 0,
       ack_network_latency_exch_to_strat |-> 0],
      [market_data_feed_latency |-> 1, strategy_processing_latency |-> 1,
       order_network_latency_strat_to_exch |-> 1,
       exchange_order_processing_latency |-> 1,
       exchange_fill_processing_latency |-> 1,
       ack_network_latency_exch_to_strat |-> 1] }

get_market_data_latency(cfg) == cfg.market_data_feed_latency

\* The getter with the slip of a strategy that takes no time.
get_strategy_processing_latency_None(cfg) == 0

get_strategy_processing_latency(cfg) == cfg.strategy_processing_latency

get_order_arrival_at_exchange_ts(cfg, strategy_decision_ts) ==
    strategy_decision_ts + cfg.order_network_latency_strat_to_exch

get_ack_arrival_at_strategy_ts(cfg, order_arrival_at_exchange_ts) ==
    LET ack_leaves_exchange_ts ==
            order_arrival_at_exchange_ts + cfg.exchange_order_processing_latency
    IN  ack_leaves_exchange_ts + cfg.ack_network_latency_exch_to_strat

\* The fill's arrival with the slip of the order processing latency.
get_fill_arrival_at_strategy_ts_AsAck(cfg, ts) == ts + cfg.exchange_order_processing_latency + cfg.ack_network_latency_exch_to_strat

get_fill_arrival_at_strategy_ts(cfg, order_arrival_at_exchange_ts) ==
    LET processing_done_ts ==
            order_arrival_at_exchange_ts + cfg.exchange_fill_processing_latency
    IN  processing_done_ts + cfg.ack_network_latency_exch_to_strat

(***************************************************************************)
(* SimpleOrderBook                                                         *)
(***************************************************************************)
EmptyBook ==
    [best_bid_price_ |-> Nullopt, best_bid_size_ |-> Nullopt,
     best_ask_price_ |-> Nullopt, best_ask_size_ |-> Nullopt]

get_bid_price(book) == book.best_bid_price_
get_bid_size(book) == book.best_bid_size_
get_ask_price(book) == book.best_ask_price_
get_ask_size(book) == book.best_ask_size_

\* update_quote with the slip of one condition for both sides.
update_quote_BothOrNeither(book, symbol_, quote) == IF quote.symbol # symbol_ THEN book ELSE IF quote.bid_price > 0 /\ quote.bid_size > 0 /\ quote.ask_price > 0 /\ quote.ask_size > 0 THEN [best_bid_price_ |-> Some(quote.bid_price), best_bid_size_ |-> Some(quote.bid_size), best_ask_price_ |-> Some(quote.ask_price), best_ask_size_ |-> Some(quote.ask_size)] ELSE [best_bid_price_ |-> Nullopt, best_bid_size_ |-> Nullopt, best_ask_price_ |-> Nullopt, best_ask_size_ |-> Nullopt]

update_quote(book, symbol_, quote) ==
    IF quote.symbol # symbol_ THEN book
    ELSE LET bid_ok == quote.bid_price > 0 /\ quote.bid_size > 0
             ask_ok == quote.ask_price > 0 /\ quote.ask_size > 0
         IN  [best_bid_price_ |-> IF bid_ok THEN Some(quote.bid_price) ELSE Nullopt,
              best_bid_size_  |-> IF bid_ok THEN Some(quote.bid_size) ELSE Nullopt,
              best_ask_price_ |-> IF ask_ok THEN Some(quote.ask_price) ELSE Nullopt,
              best_ask_size_  |-> IF ask_ok THEN Some(quote.ask_size) ELSE Nullopt]

NoFill(book) == [book |-> book, fill_price |-> INVALID_PRICE, filled_quantity |-> 0]

\* The consumed level after a fill: the size is decremented in place and the
\* price alone is reset when the size reaches zero.
\* ConsumeAsk with the slip of filling the whole order whatever the size.
ConsumeAsk_FillsWholeOrder(book, quantity) ==
    [book |-> [book EXCEPT !.best_ask_size_ = Some(0), !.best_ask_price_ = Nullopt],
     fill_price |-> book.best_ask_price_.val,
     filled_quantity |-> quantity]

ConsumeAsk(book, quantity) ==
    LET filled == Min(quantity, book.best_ask_size_.val)
        left == book.best_ask_size_.val - filled
    IN  [book |-> [book EXCEPT !.best_ask_size_ = Some(left),
                               !.best_ask_price_ = IF left = 0 THEN Nullopt ELSE @],
         fill_price |-> book.best_ask_price_.val,
         filled_quantity |-> filled]

\* ConsumeBid with the slip of leaving the size as it was.
ConsumeBid_KeepsSize(book, quantity) ==
    [book |-> book, fill_price |-> book.best_bid_price_.val,
     filled_quantity |-> Min(quantity, book.best_bid_size_.val)]

ConsumeBid(book, quantity) ==
    LET filled == Min(quantity, book.best_bid_size_.val)
        left == book.best_bid_size_.val - filled
    IN  [book |-> [book EXCEPT !.best_bid_size_ = Some(left),
                               !.best_bid_price_ = IF left = 0 THEN Nullopt ELSE @],
         fill_price |-> book.best_bid_price_.val,
         filled_quantity |-> filled]

match_market_order(book, side, quantity) ==
    IF quantity = 0 THEN NoFill(book)
    ELSE IF side = "BUY"
         THEN IF book.best_ask_price_.has /\ book.best_ask_size_.has
                 /\ book.best_ask_size_.val > 0
              THEN ConsumeAsk(book, quantity)
              ELSE NoFill(book)
         ELSE IF book.best_bid_price_.has /\ book.best_bid_size_.has
                 /\ book.best_bid_size_.val > 0
              THEN ConsumeBid(book, quantity)
              ELSE NoFill(book)

\* match_limit_order with the slip of ignoring the limit.
match_limit_order_AsMarket(book, side, limit_price, quantity) == match_market_order(book, side, quantity)

match_limit_order(book, side, limit_price, quantity) ==
    IF quantity = 0 \/ isnan(limit_price) THEN NoFill(book)
    ELSE IF side = "BUY"
         THEN IF book.best_ask_price_.has /\ book.best_ask_price_.val > 0
                 /\ limit_price >= book.best_ask_price_.val - PRICE_EPSILON
              THEN ConsumeAsk(book, quantity)
              ELSE NoFill(book)
         ELSE IF book.best_bid_price_.has /\ book.best_bid_size_.val > 0
                 /\ limit_price <= book.best_bid_price_.val + PRICE_EPSILON
              THEN ConsumeBid(book, quantity)
              ELSE NoFill(book)

(***************************************************************************)
(* Events                                                                  *)
(***************************************************************************)
\* BaseEvent's constructor sets arrival_timestamp to the timestamp given.
QuoteEvent(ex_ts, sym, bp, bs, ap, as) ==
    [type |-> "QUOTE", exchange_timestamp |-> ex_ts, arrival_timestamp |-> ex_ts,
     symbol |-> sym, bid_price |-> bp, bid_size |-> bs, ask_price |-> ap,
     ask_size |-> as]

TradeEvent(ex_ts, sym, p, s) ==
    [type |-> "TRADE", exchange_timestamp |-> ex_ts, arrival_timestamp |-> ex_ts,
     symbol |-> sym, price |-> p, size |-> s]

OrderAckEvent(effective_ts, strat_id, cl_ord_id, ex_ord_id, sym, st) ==
    [type |-> "ORDER_ACK", arrival_timestamp |-> effective_ts,
     strategy_id |-> strat_id, client_order_id |-> cl_ord_id,
     exchange_order_id |-> ex_ord_id, symbol |-> sym, status |-> st,
     last_filled_price |-> 0, last_filled_quantity |-> 0,
     cumulative_filled_quantity |-> 0, leaves_quantity |-> 0]

SimControlEvent(effective_ts, ct, evt_type) ==
    [type |-> evt_type, arrival_timestamp |-> effective_ts, control_type |-> ct]

get_effective_timestamp(e) == e.arrival_timestamp

(***************************************************************************)
(* The main event priority queue.  std::priority_queue with               *)
(* EventComparator is a min-heap on the effective timestamp; which of      *)
(* several events with the same timestamp it yields first is not fixed by  *)
(* the comparator, so top-and-pop may yield any of them.  The model keeps  *)
(* the queue as a sequence ordered by timestamp.                           *)
(***************************************************************************)
EventComparator(a, b) == get_effective_timestamp(a) > get_effective_timestamp(b)

RECURSIVE PQInsertAt(_, _, _)
PQInsertAt(pq, e, i) ==
    IF i > Len(pq) \/ EventComparator(pq[i], e)
    THEN SubSeq(pq, 1, i - 1) \o <<e>> \o SubSeq(pq, i, Len(pq))
    ELSE PQInsertAt(pq, e, i + 1)

PQPush(pq, e) == PQInsertAt(pq, e, 1)

PQTopTimestamp(pq) == get_effective_timestamp(pq[1])

\* The positions top() may yield: every event that no other event precedes.
PQTopChoices(pq) ==
    { i \in 1..Len(pq) : \A j \in 1..Len(pq) : ~EventComparator(pq[i], pq[j]) }

PQRemove(pq, i) == SubSeq(pq, 1, i - 1) \o SubSeq(pq, i + 1, Len(pq))

(***************************************************************************)
(* BlockingQueue<T>                                                        *)
(***************************************************************************)
BlockingQueue(max_size) ==
    [queue_ |-> <<>>, shutdown_requested_ |-> FALSE, max_size_ |-> max_size]

\* The predicate with the slip of never waiting for room.
PushCanProceed_NeverWaits(q) == TRUE

\* push returns once the predicate of its wait holds (always, when unbounded).
PushCanProceed(q) ==
    q.max_size_ > 0 => (Len(q.queue_) < q.max_size_ \/ q.shutdown_requested_)

\* push with the slip of not looking at shutdown_requested_.
PushResult_IgnoresShutdown(q, item) == [q EXCEPT !.queue_ = Append(@, item)]

\* The item is dropped when the queue is shut down.
PushResult(q, item) ==
    IF q.shutdown_requested_ THEN q
    ELSE [q EXCEPT !.queue_ = Append(@, item)]

\* wait_and_pop returns once the queue is non-empty or shut down.
WaitAndPopCanProceed(q) == q.queue_ # <<>> \/ q.shutdown_requested_

\* wait_and_pop with the slip of try_pop: nothing is handed out after shutdown.
WaitAndPopSucceeds_NotAfterShutdown(q) == q.queue_ # <<>> /\ ~q.shutdown_requested_

\* TRUE when wait_and_pop hands out an item, FALSE when it reports the queue closed
WaitAndPopSucceeds(q) == q.queue_ # <<>>

\* queue_.front()
Front(q) == Head(q.queue_)

\* pop with the slip of removing the newest item.
PopResult_RemovesBack(q) == [q EXCEPT !.queue_ = SubSeq(@, 1, Len(@) - 1)]

\* queue_.pop()
PopResult(q) == [q EXCEPT !.queue_ = Tail(@)]

\* try_pop yields nothing when the queue is empty or shut down
TryPopSucceeds(q) == ~(q.queue_ = <<>> \/ q.shutdown_requested_)

QueueEmpty(q) == q.queue_ = <<>>

\* shutdown with the slip of leaving the flag as it was.
QueueShutdown_Forgets(q) == q

QueueShutdown(q) == [q EXCEPT !.shutdown_requested_ = TRUE]

is_shutdown(q) == q.shutdown_requested_

(***************************************************************************)
(* Order lifecycle simulator                                               *)
(***************************************************************************)
OrderRequest(strat_id, cl_ord_id, sym, side, type, price, quantity, decision_ts) ==
    [strategy_id |-> strat_id, client_order_id |-> cl_ord_id, symbol |-> sym,
     side |-> side, type |-> type, price |-> price, quantity |-> quantity,
     request_timestamp |-> decision_ts]

\* NewAck with the slip of leaving leaves_quantity at its default.
NewAck_LeavesNothing(order_req, exchange_order_id, ack_arrival_strat_ts) ==
    OrderAckEvent(ack_arrival_strat_ts, order_req.strategy_id,
                  order_req.client_order_id, exchange_order_id,
                  order_req.symbol, "ACKNOWLEDGED")

\* The Acknowledged event: all of the quantity leaves.
NewAck(order_req, exchange_order_id, ack_arrival_strat_ts) ==
    [OrderAckEvent(ack_arrival_strat_ts, order_req.strategy_id,
                   order_req.client_order_id, exchange_order_id,
                   order_req.symbol, "ACKNOWLEDGED")
        EXCEPT !.leaves_quantity = order_req.quantity]

\* The fill attempt against the book as it is when the lifecycle runs.
MatchOrder(book, order_req) ==
    IF order_req.type = "MARKET"
    THEN match_market_order(book, order_req.side, order_req.quantity)
    ELSE IF order_req.type = "LIMIT"
         THEN match_limit_order(book, order_req.side, order_req.price,
                                order_req.quantity)
         ELSE NoFill(book)

\* The fill's arrival: moved to one nanosecond after the ack only when it
\* would come before the ack.
FillArrival(cfg, order_arrival_at_exchange_ts, ack_arrival_strat_ts) ==
    LET fill_arrival_strat_ts ==
            get_fill_arrival_at_strategy_ts(cfg, order_arrival_at_exchange_ts)
    IN  IF fill_arrival_strat_ts < ack_arrival_strat_ts
        THEN ack_arrival_strat_ts + 1
        ELSE fill_arrival_strat_ts

\* FillAck with the slip of reporting every fill as complete.
FillAck_AlwaysFilled(order_req, exchange_order_id, fill_ts, fill_price, filled_qty) ==
    [OrderAckEvent(fill_ts, order_req.strategy_id,
                   order_req.client_order_id, exchange_order_id, order_req.symbol,
                   "FILLED")
        EXCEPT !.last_filled_price = fill_price,
               !.last_filled_quantity = filled_qty,
               !.cumulative_filled_quantity = filled_qty,
               !.leaves_quantity = (order_req.quantity - filled_qty) % QuantityModulus]

\* FillAck with the slip of leaving the whole quantity on the fill event.
FillAck_LeavesWholeQuantity(order_req, exchange_order_id, fill_ts, fill_price, filled_qty) ==
    [OrderAckEvent(fill_ts, order_req.strategy_id,
                   order_req.client_order_id, exchange_order_id, order_req.symbol,
                   IF filled_qty = order_req.quantity THEN "FILLED"
                                                      ELSE "PARTIALLY_FILLED")
        EXCEPT !.last_filled_price = fill_price,
               !.last_filled_quantity = filled_qty,
               !.cumulative_filled_quantity = filled_qty,
               !.leaves_quantity = order_req.quantity]

FillAck(order_req, exchange_order_id, fill_arrival_strat_ts, fill_price, filled_qty) ==
    [OrderAckEvent(fill_arrival_strat_ts, order_req.strategy_id,
                   order_req.client_order_id, exchange_order_id, order_req.symbol,
                   IF filled_qty = order_req.quantity THEN "FILLED"
                                                      ELSE "PARTIALLY_FILLED")
        EXCEPT !.last_filled_price = fill_price,
               !.last_filled_quantity = filled_qty,
               !.cumulative_filled_quantity = filled_qty,
               !.leaves_quantity = (order_req.quantity - filled_qty) % QuantityModulus]

\* What one call pushes into the MEPQ (the ack, then the fill if any) and
\* the book it leaves behind.
simulate_order_lifecycle(cfg, book, order_req, exchange_order_id) ==
    LET decision_ts == order_req.request_timestamp
        order_effectively_sent_ts ==
            decision_ts + get_strategy_processing_latency(cfg)
        order_arrival_at_exchange_ts ==
            get_order_arrival_at_exchange_ts(cfg, order_effectively_sent_ts)
        ack_arrival_strat_ts ==
            get_ack_arrival_at_strategy_ts(cfg, order_arrival_at_exchange_ts)
        new_ack == NewAck(order_req, exchange_order_id, ack_arrival_strat_ts)
        m == MatchOrder(book, order_req)
        fill_ack == FillAck(order_req, exchange_order_id,
                            FillArrival(cfg, order_arrival_at_exchange_ts,
                                        ack_arrival_strat_ts),
                            m.fill_price, m.filled_quantity)
    IN  [new_ack |-> new_ack,
         fill_ack |-> IF m.filled_quantity > 0 /\ ~isnan(m.fill_price)
                      THEN <<fill_ack>> ELSE <<>>,
         book |-> m.book]

\* The dispatcher state one call changes: the MEPQ, the books, the exchange
\* order id counter; and the history of the calls.
DispatcherCore ==
    [pq |-> main_event_pq_, books |-> order_books_,
     next_id |-> next_exchange_order_id_, log |-> lifecycle_log]

ApplyLifecycle(st, order_req, now) ==
    LET r == simulate_order_lifecycle(latency_model_, st.books[order_req.symbol],
                                      order_req, st.next_id)
        pq1 == PQPush(st.pq, r.new_ack)
        pq2 == IF r.fill_ack = <<>> THEN pq1 ELSE PQPush(pq1, r.fill_ack[1])
    IN  [pq |-> pq2,
         books |-> [st.books EXCEPT ![order_req.symbol] = r.book],
         next_id |-> st.next_id + 1,
         log |-> Append(st.log, [request |-> order_req, sim_time |-> now,
                                 new_ack |-> r.new_ack, fill_ack |-> r.fill_ack,
                                 book_before |-> st.books[order_req.symbol],
                                 book_after |-> r.book])]

\* process_incoming_order_requests: try_pop until it yields nothing.
RECURSIVE DrainRequests(_, _, _)
DrainRequests(st, reqs, now) ==
    IF reqs = <<>> THEN st
    ELSE DrainRequests(ApplyLifecycle(st, Head(reqs), now), Tail(reqs), now)

(***************************************************************************)
(* The lifecycle simulator on its own: the dispatch thread alone, applying *)
(* quotes to the book, simulating the lifecycle of arbitrary order         *)
(* requests, and popping the resulting events from the MEPQ.               *)
(***************************************************************************)
\* Quotes whose sides are absent (a zero price or size) or full.
HarnessQuotes ==
    { QuoteEvent(0, "EURUSD", bp, bs, ap, as) :
        bp \in 0..MaxPx, bs \in {0, MaxQty}, ap \in 0..MaxPx, as \in {0, MaxQty} }

\* Market orders carry INVALID_PRICE; limit orders any price, NaN and a
\* price below every quote included.
HarnessRequests ==
    { OrderRequest("S1", 1, "EURUSD", side, "MARKET", INVALID_PRICE, quantity, 0) :
        side \in {"BUY", "SELL"}, quantity \in 0..MaxQty + 1 }
    \cup
    { OrderRequest("S1", 1, "EURUSD", side, "LIMIT", price, quantity, 0) :
        side \in {"BUY", "SELL"}, price \in {INVALID_PRICE} \cup 0..MaxPx,
        quantity \in 0..MaxQty + 1 }

LifecycleInit ==
    /\ historical_data = <<>>
    /\ latency_model_ \in LatencyConfigs
    /\ csv_parser_ = "null"
    /\ main_event_pq_ = <<>>
    /\ incoming_order_requests_ = BlockingQueue(0)
    /\ strategy_runners_ = <<>>
    /\ strategy_map_ = [id \in StrategyIds |-> NoRunner]
    /\ current_simulation_time_ = TimestampMin
    /\ simulation_running_ = TRUE
    /\ next_exchange_order_id_ = 1
    /\ order_books_ = [sym \in Symbols |-> EmptyBook]
    /\ data_feed_ended_signal_pushed = FALSE
    /\ pc = "loop"
    /\ pending = <<>>
    /\ lifecycle_log = <<>>
    /\ pushed = <<>>
    /\ run_no = 1
    /\ previous_run = {}
    /\ callbacks = <<>>
    /\ end_of_feed_log = <<>>
    /\ QueueUnused
    /\ LatencyUnused

\* A quote event popped and dispatched: the clock takes its timestamp and
\* the book of its symbol takes the quote.  The history starts afresh.
HarnessQuote ==
    /\ main_event_pq_ = <<>>
    /\ \E q \in HarnessQuotes :
         /\ current_simulation_time_' = get_effective_timestamp(q)
         /\ order_books_' = [order_books_ EXCEPT
                               ![q.symbol] = update_quote(@, q.symbol, q)]
    /\ lifecycle_log' = <<>>
    /\ UNCHANGED << historical_data, latency_model_, csv_parser_, main_event_pq_,
                    incoming_order_requests_, strategy_runners_, strategy_map_,
                    simulation_running_, next_exchange_order_id_,
                    data_feed_ended_signal_pushed, pc, pending, pushed, run_no,
                    previous_run, callbacks, end_of_feed_log, queue_vars, latency_calls >>

\* simulate_order_lifecycle on one request; the history keeps the last call.
HarnessOrder ==
    /\ main_event_pq_ = <<>>
    /\ \E req \in HarnessRequests :
         LET st == ApplyLifecycle([DispatcherCore EXCEPT !.log = <<>>, !.next_id = 1],
                                  req, current_simulation_time_)
         IN  /\ main_event_pq_' = st.pq
             /\ order_books_' = st.books
             /\ lifecycle_log' = st.log
    /\ UNCHANGED << historical_data, latency_model_, csv_parser_,
                    incoming_order_requests_, strategy_runners_, strategy_map_,
                    current_simulation_time_, simulation_running_,
                    next_exchange_order_id_, data_feed_ended_signal_pushed, pc,
                    pending, pushed, run_no, previous_run, callbacks, end_of_feed_log, queue_vars, latency_calls >>

\* The dispatch loop's top-and-pop.
HarnessPop ==
    /\ main_event_pq_ # <<>>
    /\ \E i \in PQTopChoices(main_event_pq_) :
         /\ current_simulation_time_' = get_effective_timestamp(main_event_pq_[i])
         /\ main_event_pq_' = PQRemove(main_event_pq_, i)
    /\ UNCHANGED << historical_data, latency_model_, csv_parser_,
                    incoming_order_requests_, strategy_runners_, strategy_map_,
                    simulation_running_, next_exchange_order_id_, order_books_,
                    data_feed_ended_signal_pushed, pc, pending, lifecycle_log,
                    pushed, run_no, previous_run, callbacks, end_of_feed_log, queue_vars, latency_calls >>

LifecycleNext == HarnessQuote \/ HarnessOrder \/ HarnessPop

SpecLifecycle == LifecycleInit /\ [][LifecycleNext]_vars

(***************************************************************************)
(* The simulator: the dispatch thread running Dispatcher::run and one      *)
(* worker thread per registered strategy.                                  *)
(***************************************************************************)
\* The latency configurations the simulator runs under: the defaults, and
\* the defaults with the exchange processing a fill faster than an order.
DispatcherConfigs ==
    { DefaultConfig, [DefaultConfig EXCEPT !.exchange_fill_processing_latency = 5000] }

\* Two-sided quote with more on the ask than a BasicStrategy order takes.
FeedQuoteA(ex_ts) == QuoteEvent(ex_ts, "EURUSD", 1, 600, 2, 1500)
\* Quote with less on the ask than a BasicStrategy order takes.
FeedQuoteB(ex_ts) == QuoteEvent(ex_ts, "EURUSD", 1, 600, 3, 500)
FeedTrade(ex_ts) == TradeEvent(ex_ts, "EURUSD", 2, 100)

\* Quotes FeedGap apart.
SpacedFeed(n) ==
    [i \in 1..n |-> IF i % 2 = 1 THEN FeedQuoteA((i - 1) * FeedGap)
                                 ELSE FeedQuoteB((i - 1) * FeedGap)]

\* A trade and quotes, all with the same exchange timestamp.
BurstFeed(n) == [i \in 1..n |-> IF i = 1 THEN FeedTrade(0) ELSE FeedQuoteA(0)]

\* The tick files: exchange timestamps never decrease along a file.
Feeds == { SpacedFeed(n) : n \in 0..MaxFeed } \cup { BurstFeed(n) : n \in 1..MaxFeed }

\* BasicStrategy as create_basic_strategy makes it.
BasicStrategy == [eurusd_order_sent_ |-> FALSE, next_client_order_id_ |-> 1]

\* thread: "none" (not started), then the worker's position in
\* strategy_thread_loop; event_variant: the event popped, if any.
StrategyRunner(s_id) ==
    [id |-> s_id, strategy_instance |-> BasicStrategy,
     input_queue |-> BlockingQueue(MailboxCapacity),
     thread |-> "none", event_variant |-> <<>>]

\* The registrations explored: up to MaxStrategies strategies on an empty
\* file, up to two on a file of one event, one on a longer file.  The ids
\* are interchangeable, so the first strategy registered is S1.
StrategiesFor(feed) ==
    IF Len(feed) = 0 THEN MaxStrategies
    ELSE IF Len(feed) = 1 THEN Min(MaxStrategies, 2)
    ELSE 1

\* emplace_back moves the runners to new storage when the vector is full;
\* the capacity doubles, starting from 0.
VectorReallocates(size) == size \in {0, 1, 2, 4, 8}

Init ==
    /\ historical_data \in Feeds
    /\ latency_model_ \in DispatcherConfigs
    /\ csv_parser_ = "null"
    /\ main_event_pq_ = <<>>
    /\ incoming_order_requests_ = BlockingQueue(0)
    /\ strategy_runners_ = <<>>
    /\ strategy_map_ = [id \in StrategyIds |-> NoRunner]
    /\ current_simulation_time_ = TimestampMin
    /\ simulation_running_ = FALSE
    /\ next_exchange_order_id_ = 1
    /\ order_books_ = [sym \in Symbols |-> EmptyBook]
    /\ data_feed_ended_signal_pushed = FALSE
    /\ pc = "idle"
    /\ pending = <<>>
    /\ lifecycle_log = <<>>
    /\ pushed = <<>>
    /\ run_no = 1
    /\ previous_run = {}
    /\ callbacks = <<>>
    /\ end_of_feed_log = <<>>
    /\ QueueUnused
    /\ LatencyUnused

\* add_strategy, called before run or while it runs: nothing happens while
\* the simulation runs; otherwise the runner is appended and the map takes
\* a pointer to it.  The pointers the map took before become dangling when
\* the vector reallocates.
add_strategy(id) ==
    /\ pc = "idle" \/ simulation_running_
    /\ pc # "crashed"
    /\ Len(strategy_runners_) < StrategiesFor(historical_data)
    /\ Len(strategy_runners_) = 0 => id = "S1"
    /\ IF simulation_running_
       THEN UNCHANGED vars
       ELSE /\ strategy_runners_' = Append(strategy_runners_, StrategyRunner(id))
            /\ strategy_map_' =
                 [i \in StrategyIds |->
                    IF i = id
                    THEN [runner |-> Len(strategy_runners_) + 1, dangling |-> FALSE]
                    ELSE IF strategy_map_[i].runner # 0
                            /\ VectorReallocates(Len(strategy_runners_))
                         THEN [strategy_map_[i] EXCEPT !.dangling = TRUE]
                         ELSE strategy_map_[i]]
            /\ pushed' = Append(pushed, <<>>)
            /\ callbacks' = Append(callbacks, <<>>)
            /\ UNCHANGED << historical_data, latency_model_, csv_parser_,
                            main_event_pq_, incoming_order_requests_,
                            current_simulation_time_, simulation_running_,
                            next_exchange_order_id_, order_books_,
                            data_feed_ended_signal_pushed, pc, pending,
                            lifecycle_log, run_no, previous_run,
                            end_of_feed_log, queue_vars, latency_calls >>

\* load_initial_data: every event of the file enters the MEPQ with its
\* arrival timestamp; an empty file leaves an END_OF_DATA_FEED event of the
\* dispatcher's own type, stamped with the wall clock.
RECURSIVE LoadEvents(_, _)
LoadEvents(pq, events) ==
    IF events = <<>> THEN pq
    ELSE LET market_event == Head(events)
             md_latency == get_market_data_latency(latency_model_)
         IN  LoadEvents(
                 PQPush(pq, [market_event EXCEPT !.arrival_timestamp =
                                 market_event.exchange_timestamp + md_latency]),
                 Tail(events))

load_initial_data ==
    LET loaded == LoadEvents(<<>>, historical_data)
    IN  IF loaded # <<>> THEN loaded
        ELSE <<SimControlEvent(WallClockNow, "END_OF_DATA_FEED",
                               "SIM_CONTROL_DISPATCHER")>>

\* The history of the END_OF_DATA_FEED events pushed into the MEPQ: each with
\* the simulation time at its push.
LogEndOfFeed(events, now) ==
    end_of_feed_log \o [k \in 1..Len(events) |-> [event |-> events[k], sim_time |-> now]]

\* The END_OF_DATA_FEED event load_initial_data leaves, if any.
LoadedEndOfFeed ==
    IF LoadEvents(<<>>, historical_data) # <<>> THEN <<>> ELSE load_initial_data

\* run, up to its loop: the workers are started, the file is loaded and the
\* first PROCESS_ORDER_REQUESTS event is scheduled at the earliest event.
StartedRunners(runners) ==
    [r \in 1..Len(runners) |->
        [StrategyRunner(runners[r].id) EXCEPT !.thread = "on_init"]]

\* StartedPQ with the slip of scheduling the first check twice.
StartedPQ_TwoChecks ==
    PQPush(PQPush(load_initial_data,
                  SimControlEvent(PQTopTimestamp(load_initial_data),
                                  "PROCESS_ORDER_REQUESTS", "SIM_CONTROL_DISPATCHER")),
           SimControlEvent(PQTopTimestamp(load_initial_data),
                           "PROCESS_ORDER_REQUESTS", "SIM_CONTROL_DISPATCHER"))

StartedPQ ==
    PQPush(load_initial_data,
           SimControlEvent(PQTopTimestamp(load_initial_data),
                           "PROCESS_ORDER_REQUESTS", "SIM_CONTROL_DISPATCHER"))

run_Start ==
    /\ pc = "idle"
    /\ simulation_running_' = TRUE
    /\ strategy_runners_' = StartedRunners(strategy_runners_)
    /\ csv_parser_' = "exhausted"
    /\ main_event_pq_' = StartedPQ
    /\ data_feed_ended_signal_pushed' = FALSE
    /\ end_of_feed_log' = LogEndOfFeed(LoadedEndOfFeed, current_simulation_time_)
    /\ pc' = "loop"
    /\ UNCHANGED << historical_data, latency_model_, incoming_order_requests_,
                    strategy_map_, current_simulation_time_,
                    next_exchange_order_id_, order_books_, pending,
                    lifecycle_log, pushed, run_no, previous_run, callbacks,
                    queue_vars, latency_calls >>

\* What try_pop yields, call after call, until it yields nothing.
IncomingItems ==
    IF TryPopSucceeds(incoming_order_requests_)
    THEN incoming_order_requests_.queue_ ELSE <<>>

\* process_incoming_order_requests with the slip of forgetting the MEPQ.
process_incoming_order_requests_LosesQueue ==
    [DrainRequests(DispatcherCore, IncomingItems, current_simulation_time_)
        EXCEPT !.pq = <<>>]

\* process_incoming_order_requests at the current simulation time.
process_incoming_order_requests ==
    DrainRequests(DispatcherCore, IncomingItems, current_simulation_time_)

EndOfDataFeed(ts) ==
    SimControlEvent(ts, "END_OF_DATA_FEED", "SIM_CONTROL_STRATEGY")

StrategyShutdown(ts) ==
    SimControlEvent(ts, "STRATEGY_SHUTDOWN", "SIM_CONTROL_STRATEGY")

\* One push per runner, in the order of the vector.
Broadcast(event) ==
    [r \in 1..Len(strategy_runners_) |-> [runner |-> r, event |-> event]]

\* The end of an iteration of the loop: once the parser has no more events
\* the END_OF_DATA_FEED event is scheduled, one nanosecond after the event
\* just dispatched.
ScheduleEndOfFeed(pq, now, signal_pushed) ==
    IF csv_parser_ = "exhausted" /\ ~signal_pushed
    THEN [pq |-> PQPush(pq, EndOfDataFeed(now + EndOfFeedDelay)),
          signal_pushed |-> TRUE]
    ELSE [pq |-> pq, signal_pushed |-> signal_pushed]

\* The END_OF_DATA_FEED event the end of an iteration pushes, if any.
EndOfFeedScheduled(now, signal_pushed) ==
    IF csv_parser_ = "exhausted" /\ ~signal_pushed
    THEN <<EndOfDataFeed(now + EndOfFeedDelay)>>
    ELSE <<>>

\* The mailbox pushes of the handler of an event popped from the MEPQ.
HandlerPushes(event) ==
    IF event.type \in {"QUOTE", "TRADE"} THEN Broadcast(event)
    ELSE IF event.type = "ORDER_ACK"
         THEN IF strategy_map_[event.strategy_id].runner = 0 THEN <<>>
              ELSE <<[runner |-> strategy_map_[event.strategy_id].runner,
                      event |-> event]>>
    ELSE IF event.type = "SIM_CONTROL_STRATEGY"
            /\ event.control_type = "END_OF_DATA_FEED"
         THEN Broadcast(StrategyShutdown(event.arrival_timestamp))
    ELSE <<>>

\* The loop with the MEPQ empty after the drain: the END_OF_DATA_FEED event
\* is scheduled if it never was, otherwise the loop is left and
\* shutdown_strategies begins.
run_LoopIdle ==
    /\ pc = "loop"
    /\ simulation_running_
    /\ process_incoming_order_requests.pq = <<>>
    /\ IF ~data_feed_ended_signal_pushed
       THEN /\ main_event_pq_' =
                 <<EndOfDataFeed(current_simulation_time_ + EndOfFeedDelay)>>
            /\ data_feed_ended_signal_pushed' = TRUE
            /\ end_of_feed_log' =
                 LogEndOfFeed(<<EndOfDataFeed(current_simulation_time_
                                                + EndOfFeedDelay)>>,
                              current_simulation_time_)
            /\ UNCHANGED << simulation_running_, pc, pending >>
       ELSE /\ simulation_running_' = FALSE
            /\ pc' = "shutdown"
            /\ pending' = Broadcast(StrategyShutdown(current_simulation_time_
                                                       + EndOfFeedDelay))
            /\ UNCHANGED << main_event_pq_, data_feed_ended_signal_pushed,
                            end_of_feed_log >>
    /\ UNCHANGED << historical_data, latency_model_, csv_parser_,
                    incoming_order_requests_, strategy_runners_, strategy_map_,
                    current_simulation_time_, next_exchange_order_id_,
                    order_books_, lifecycle_log, pushed, run_no, previous_run,
                    callbacks, queue_vars, latency_calls >>

\* The loop with an event to dispatch: the order requests are drained, the
\* earliest event is popped, the clock takes its timestamp, a quote updates
\* the book of its symbol and the handler of the event begins.  An ack for a
\* strategy whose map entry dangles is routed through freed memory: the
\* process may abort.
run_LoopPop ==
    /\ pc = "loop"
    /\ simulation_running_
    /\ \E st \in {process_incoming_order_requests} :
           /\ st.pq # <<>>
           /\ \E i \in PQTopChoices(st.pq) :
                LET event == st.pq[i]
                    now == get_effective_timestamp(event)
                    pushes == HandlerPushes(event)
                    done == ScheduleEndOfFeed(PQRemove(st.pq, i), now,
                                              data_feed_ended_signal_pushed)
                    is_process == event.type = "SIM_CONTROL_DISPATCHER"
                                  /\ event.control_type = "PROCESS_ORDER_REQUESTS"
                    unfinished == is_process \/ pushes # <<>>
                IN  /\ current_simulation_time_' = now
                    /\ order_books_' =
                         IF event.type = "QUOTE"
                         THEN [st.books EXCEPT ![event.symbol] =
                                   update_quote(@, event.symbol, event)]
                         ELSE st.books
                    /\ main_event_pq_' =
                         IF unfinished THEN PQRemove(st.pq, i) ELSE done.pq
                    /\ data_feed_ended_signal_pushed' =
                         IF unfinished THEN data_feed_ended_signal_pushed
                         ELSE done.signal_pushed
                    /\ end_of_feed_log' =
                         IF unfinished THEN end_of_feed_log
                         ELSE LogEndOfFeed(
                                  EndOfFeedScheduled(now,
                                                     data_feed_ended_signal_pushed),
                                  now)
                    /\ pending' = pushes
                    /\ \/ pc' = IF is_process THEN "process_orders"
                                ELSE IF pushes # <<>> THEN "push" ELSE "loop"
                       \/ /\ event.type = "ORDER_ACK"
                          /\ strategy_map_[event.strategy_id].dangling
                          /\ pc' = "crashed"
           /\ incoming_order_requests_' =
                [incoming_order_requests_ EXCEPT
                    !.queue_ = SubSeq(@, Len(IncomingItems) + 1, Len(@))]
           /\ next_exchange_order_id_' = st.next_id
           /\ lifecycle_log' = st.log
    /\ UNCHANGED << historical_data, latency_model_, csv_parser_,
                    strategy_runners_, strategy_map_, simulation_running_,
                    pushed, run_no, previous_run, callbacks, queue_vars, latency_calls >>

\* handle_sim_control_event on PROCESS_ORDER_REQUESTS: the requests are
\* drained and the next PROCESS_ORDER_REQUESTS event is scheduled if the
\* MEPQ holds anything; then the iteration ends.
handle_sim_control_event ==
    /\ pc = "process_orders"
    /\ \E st \in {process_incoming_order_requests} :
       LET next_check_time == current_simulation_time_ + ProcessOrdersInterval
           pq1 == IF simulation_running_ /\ st.pq # <<>>
                  THEN PQPush(st.pq, SimControlEvent(next_check_time,
                                         "PROCESS_ORDER_REQUESTS",
                                         "SIM_CONTROL_DISPATCHER"))
                  ELSE st.pq
           done == ScheduleEndOfFeed(pq1, current_simulation_time_,
                                     data_feed_ended_signal_pushed)
       IN  /\ main_event_pq_' = done.pq
           /\ data_feed_ended_signal_pushed' = done.signal_pushed
           /\ end_of_feed_log' =
                LogEndOfFeed(EndOfFeedScheduled(current_simulation_time_,
                                data_feed_ended_signal_pushed),
                        current_simulation_time_)
           /\ order_books_' = st.books
           /\ next_exchange_order_id_' = st.next_id
           /\ lifecycle_log' = st.log
           /\ incoming_order_requests_' =
                [incoming_order_requests_ EXCEPT
                    !.queue_ = SubSeq(@, Len(IncomingItems) + 1, Len(@))]
    /\ pc' = "loop"
    /\ UNCHANGED << historical_data, latency_model_, csv_parser_,
                    strategy_runners_, strategy_map_, current_simulation_time_,
                    simulation_running_, pending, pushed, run_no, previous_run,
                    callbacks, queue_vars, latency_calls >>

\* The next push of handle_market_data_event, handle_order_ack_event or of
\* the shutdown broadcast: it waits while the mailbox is full and open, and
\* the item is dropped when the mailbox is shut down.  After the last push
\* the iteration ends.
PushToMailbox ==
    /\ pc = "push"
    /\ pending # <<>>
    /\ LET runner == Head(pending).runner
           q == strategy_runners_[runner].input_queue
           done == ScheduleEndOfFeed(main_event_pq_, current_simulation_time_,
                                     data_feed_ended_signal_pushed)
       IN  /\ PushCanProceed(q)
           /\ strategy_runners_' =
                [strategy_runners_ EXCEPT
                    ![runner].input_queue = PushResult(q, Head(pending).event)]
           /\ pushed' = IF is_shutdown(q) THEN pushed
                        ELSE [pushed EXCEPT ![runner] = Append(@, Head(pending).event)]
           /\ pending' = Tail(pending)
           /\ IF Tail(pending) = <<>>
              THEN /\ main_event_pq_' = done.pq
                   /\ data_feed_ended_signal_pushed' = done.signal_pushed
                   /\ end_of_feed_log' =
                        LogEndOfFeed(EndOfFeedScheduled(current_simulation_time_,
                                data_feed_ended_signal_pushed),
                        current_simulation_time_)
                   /\ pc' = "loop"
              ELSE UNCHANGED << main_event_pq_, data_feed_ended_signal_pushed,
                                end_of_feed_log, pc >>
    /\ UNCHANGED << historical_data, latency_model_, csv_parser_,
                    incoming_order_requests_, strategy_map_,
                    current_simulation_time_, simulation_running_,
                    next_exchange_order_id_, order_books_, lifecycle_log,
                    run_no, previous_run, callbacks, queue_vars, latency_calls >>

\* shutdown_strategies: each open mailbox gets a last STRATEGY_SHUTDOWN event
\* (the push waits while the mailbox is full) and is shut down; then every
\* worker is joined and run returns.
shutdown_strategies ==
    /\ pc = "shutdown"
    /\ IF pending # <<>>
       THEN LET runner == Head(pending).runner
                q == strategy_runners_[runner].input_queue
            IN  /\ is_shutdown(q) \/ PushCanProceed(q)
                /\ strategy_runners_' =
                     IF is_shutdown(q) THEN strategy_runners_
                     ELSE [strategy_runners_ EXCEPT ![runner].input_queue =
                              QueueShutdown(PushResult(q, Head(pending).event))]
                /\ pushed' = IF is_shutdown(q) THEN pushed
                             ELSE [pushed EXCEPT ![runner] =
                                      Append(@, Head(pending).event)]
                /\ pending' = Tail(pending)
                /\ UNCHANGED pc
       ELSE /\ \A r \in 1..Len(strategy_runners_) :
                 strategy_runners_[r].thread \in {"none", "finished"}
            /\ pc' = "done"
            /\ UNCHANGED << strategy_runners_, pushed, pending >>
    /\ UNCHANGED << historical_data, latency_model_, csv_parser_, main_event_pq_,
                    incoming_order_requests_, strategy_map_,
                    current_simulation_time_, simulation_running_,
                    next_exchange_order_id_, order_books_,
                    data_feed_ended_signal_pushed, lifecycle_log, run_no,
                    previous_run, callbacks, end_of_feed_log, queue_vars, latency_calls >>

(***************************************************************************)
(* strategy_thread_loop of runner r                                        *)
(***************************************************************************)
WorkerUnchanged ==
    UNCHANGED << historical_data, latency_model_, csv_parser_, main_event_pq_,
                 strategy_map_, current_simulation_time_, simulation_running_,
                 next_exchange_order_id_, order_books_,
                 data_feed_ended_signal_pushed, pc, pending, lifecycle_log,
                 pushed, run_no, previous_run, end_of_feed_log, queue_vars, latency_calls >>

IsRunner(r) == r \in 1..Len(strategy_runners_) /\ pc # "crashed"

\* The check with the slip of never recognising the shutdown signal.
IsStrategyShutdown_Never(e) == FALSE

\* The check for the shutdown signal on the event popped.
IsStrategyShutdown(e) ==
    e.type = "SIM_CONTROL_STRATEGY" /\ e.control_type = "STRATEGY_SHUTDOWN"

\* StrategyEventVisitor: the callback on_event hands the event to.
StrategyEventVisitor(event_variant) ==
    IF event_variant.type = "QUOTE" THEN "on_quote"
    ELSE IF event_variant.type = "TRADE" THEN "on_trade"
    ELSE IF event_variant.type = "ORDER_ACK" THEN "on_order_ack"
    ELSE "on_sim_control"

\* One entry of the history of callbacks.
Callback(name, event_variant, exception) ==
    [callback |-> name, event |-> event_variant, threw |-> exception]

\* on_init, before the loop
strategy_on_init(r) ==
    /\ IsRunner(r)
    /\ strategy_runners_[r].thread = "on_init"
    /\ strategy_runners_' = [strategy_runners_ EXCEPT ![r].thread = "loop"]
    /\ callbacks' = [callbacks EXCEPT ![r] = Append(@, Callback("on_init", <<>>, FALSE))]
    /\ UNCHANGED incoming_order_requests_
    /\ WorkerUnchanged

\* The first operand of the loop condition: simulation_running_.load()
strategy_loop_condition(r) ==
    /\ IsRunner(r)
    /\ strategy_runners_[r].thread = "loop"
    /\ strategy_runners_' =
         [strategy_runners_ EXCEPT
            ![r].thread = IF simulation_running_ THEN "wait_and_pop"
                          ELSE "on_shutdown"]
    /\ UNCHANGED << incoming_order_requests_, callbacks >>
    /\ WorkerUnchanged

\* The second operand: wait_and_pop on the mailbox.  It waits while the
\* mailbox is empty and open.  A STRATEGY_SHUTDOWN event, or a closed and
\* empty mailbox, ends the loop; an event without a timestamp is skipped.
strategy_wait_and_pop(r) ==
    /\ IsRunner(r)
    /\ strategy_runners_[r].thread = "wait_and_pop"
    /\ LET q == strategy_runners_[r].input_queue
       IN  /\ WaitAndPopCanProceed(q)
           /\ strategy_runners_' =
                IF ~WaitAndPopSucceeds(q)
                THEN [strategy_runners_ EXCEPT ![r].thread = "on_shutdown"]
                ELSE LET event_variant == Head(q.queue_)
                         event_arrival_ts == get_effective_timestamp(event_variant)
                         is_shutdown_event == IsStrategyShutdown(event_variant)
                     IN  [strategy_runners_ EXCEPT
                            ![r].input_queue = PopResult(q),
                            ![r].thread =
                                IF event_arrival_ts = TimestampMin /\ ~is_shutdown(q)
                                THEN "loop"
                                ELSE IF is_shutdown_event THEN "on_shutdown"
                                ELSE "on_event",
                            ![r].event_variant =
                                IF (event_arrival_ts = TimestampMin /\ ~is_shutdown(q))
                                   \/ is_shutdown_event
                                THEN <<>> ELSE <<event_variant>>]
    /\ UNCHANGED << incoming_order_requests_, callbacks >>
    /\ WorkerUnchanged

\* BasicStrategy::on_quote: the first EURUSD quote with an ask is answered
\* by one market buy, decided at the quote's arrival timestamp.
BasicStrategyOrders(strategy, quote) ==
    quote.type = "QUOTE" /\ quote.symbol = "EURUSD"
    /\ ~strategy.eurusd_order_sent_ /\ quote.ask_price > 0 /\ quote.ask_size > 0

\* on_event: the callback of the event's kind; submit_order pushes the
\* request into the order-request queue.
strategy_on_event(r) ==
    /\ IsRunner(r)
    /\ strategy_runners_[r].thread = "on_event"
    /\ LET runner == strategy_runners_[r]
           event_variant == runner.event_variant[1]
           strategy == runner.strategy_instance
       IN  IF BasicStrategyOrders(strategy, event_variant)
           THEN /\ incoming_order_requests_' =
                     PushResult(incoming_order_requests_,
                                OrderRequest(runner.id,
                                             strategy.next_client_order_id_,
                                             event_variant.symbol, "BUY", "MARKET",
                                             INVALID_PRICE, BasicOrderQuantity,
                                             get_effective_timestamp(event_variant)))
                /\ strategy_runners_' =
                     [strategy_runners_ EXCEPT
                        ![r].strategy_instance =
                            [eurusd_order_sent_ |-> TRUE,
                             next_client_order_id_ |->
                                 strategy.next_client_order_id_ + 1],
                        ![r].thread = "loop",
                        ![r].event_variant = <<>>]
           ELSE /\ strategy_runners_' =
                     [strategy_runners_ EXCEPT ![r].thread = "loop",
                                               ![r].event_variant = <<>>]
                /\ UNCHANGED incoming_order_requests_
    /\ callbacks' =
         [callbacks EXCEPT ![r] =
            Append(@, Callback(StrategyEventVisitor(strategy_runners_[r].event_variant[1]),
                               strategy_runners_[r].event_variant, FALSE))]
    /\ WorkerUnchanged

\* on_event with the callback throwing: nothing in strategy_thread_loop
\* catches, the exception leaves the thread's function and the process is
\* terminated.
strategy_on_event_throws(r) ==
    /\ IsRunner(r)
    /\ strategy_runners_[r].thread = "on_event"
    /\ callbacks' =
         [callbacks EXCEPT ![r] =
            Append(@, Callback(StrategyEventVisitor(strategy_runners_[r].event_variant[1]),
                               strategy_runners_[r].event_variant, TRUE))]
    /\ pc' = "crashed"
    /\ UNCHANGED << historical_data, latency_model_, csv_parser_, main_event_pq_,
                    incoming_order_requests_, strategy_runners_, strategy_map_,
                    current_simulation_time_, simulation_running_,
                    next_exchange_order_id_, order_books_,
                    data_feed_ended_signal_pushed, pending, lifecycle_log,
                    pushed, run_no, previous_run, end_of_feed_log, queue_vars, latency_calls >>

\* on_shutdown, after the loop; the thread ends.
strategy_on_shutdown(r) ==
    /\ IsRunner(r)
    /\ strategy_runners_[r].thread = "on_shutdown"
    /\ strategy_runners_' = [strategy_runners_ EXCEPT ![r].thread = "finished"]
    /\ callbacks' =
         [callbacks EXCEPT ![r] = Append(@, Callback("on_shutdown", <<>>, FALSE))]
    /\ UNCHANGED incoming_order_requests_
    /\ WorkerUnchanged

Next ==
    \/ \E id \in StrategyIds : add_strategy(id)
    \/ run_Start
    \/ run_LoopIdle
    \/ run_LoopPop
    \/ handle_sim_control_event
    \/ PushToMailbox
    \/ shutdown_strategies
    \/ \E r \in 1..MaxStrategies : strategy_on_init(r)
    \/ \E r \in 1..MaxStrategies : strategy_loop_condition(r)
    \/ \E r \in 1..MaxStrategies : strategy_wait_and_pop(r)
    \/ \E r \in 1..MaxStrategies : strategy_on_event(r)
    \/ \E r \in 1..MaxStrategies : strategy_on_event_throws(r)
    \/ \E r \in 1..MaxStrategies : strategy_on_shutdown(r)

Spec == Init /\ [][Next]_vars

(***************************************************************************)
(* Running the simulator again over the same file, latency configuration   *)
(* and strategies: main constructs a fresh Dispatcher, registers the same  *)
(* strategies and calls run.  The history keeps what the previous run      *)
(* emitted.                                                                *)
(***************************************************************************)
AckSummary(ack) ==
    [strategy_id |-> ack.strategy_id, client_order_id |-> ack.client_order_id,
     status |-> ack.status, last_filled_price |-> ack.last_filled_price,
     last_filled_quantity |-> ack.last_filled_quantity,
     arrival_timestamp |-> ack.arrival_timestamp]

\* The ack and fill events of the run so far.
Emitted ==
    { AckSummary(lifecycle_log[k].new_ack) : k \in 1..Len(lifecycle_log) }
    \cup
    { AckSummary(lifecycle_log[k].fill_ack[1]) :
        k \in { j \in 1..Len(lifecycle_log) : lifecycle_log[j].fill_ack # <<>> } }

Rerun ==
    /\ pc = "done"
    /\ run_no < MaxRuns
    /\ previous_run' = Emitted
    /\ run_no' = run_no + 1
    /\ main_event_pq_' = StartedPQ
    /\ incoming_order_requests_' = BlockingQueue(0)
    /\ strategy_runners_' = StartedRunners(strategy_runners_)
    /\ current_simulation_time_' = TimestampMin
    /\ simulation_running_' = TRUE
    /\ next_exchange_order_id_' = 1
    /\ order_books_' = [sym \in Symbols |-> EmptyBook]
    /\ data_feed_ended_signal_pushed' = FALSE
    /\ pc' = "loop"
    /\ pending' = <<>>
    /\ lifecycle_log' = <<>>
    /\ pushed' = [r \in 1..Len(strategy_runners_) |-> <<>>]
    /\ callbacks' = [r \in 1..Len(strategy_runners_) |-> <<>>]
    /\ end_of_feed_log' = [k \in 1..Len(LoadedEndOfFeed) |->
                              [event |-> LoadedEndOfFeed[k], sim_time |-> TimestampMin]]
    /\ UNCHANGED << historical_data, latency_model_, csv_parser_, strategy_map_,
                    queue_vars, latency_calls >>

NextRerun == Next \/ Rerun

SpecRerun == Init /\ [][NextRerun]_vars

(***************************************************************************)
(* BlockingQueue on its own: two producer threads pushing their items in   *)
(* order, one consumer thread calling wait_and_pop and try_pop, and a      *)
(* shutdown of the queue, on a bounded or unbounded queue.  A call that    *)
(* may wait is two steps: the call, and the body run under the mutex once  *)
(* the predicate of its wait holds.                                        *)
(***************************************************************************)
Producers == {"P1", "P2"}
Consumer == "C"

NoOperation ==
    [op |-> "none", thread |-> "", closed |-> FALSE, before |-> <<>>,
     ok |-> FALSE, item |-> <<>>, blocked |-> FALSE]

\* The dispatcher at rest, while the queue harness runs.
DispatcherUnused ==
    /\ historical_data = <<>>
    /\ latency_model_ = DefaultConfig
    /\ csv_parser_ = "null"
    /\ main_event_pq_ = <<>>
    /\ incoming_order_requests_ = BlockingQueue(0)
    /\ strategy_runners_ = <<>>
    /\ strategy_map_ = [id \in StrategyIds |-> NoRunner]
    /\ current_simulation_time_ = TimestampMin
    /\ simulation_running_ = FALSE
    /\ next_exchange_order_id_ = 1
    /\ order_books_ = [sym \in Symbols |-> EmptyBook]
    /\ data_feed_ended_signal_pushed = FALSE
    /\ pc = "idle"
    /\ pending = <<>>
    /\ lifecycle_log = <<>>
    /\ pushed = <<>>
    /\ run_no = 1
    /\ previous_run = {}
    /\ callbacks = <<>>
    /\ end_of_feed_log = <<>>
    /\ LatencyUnused

\* calls: the calls the thread has made; item: the item of the push under
\* way; blocked: the thread was waiting in push when shutdown was called.
QueueInit ==
    /\ DispatcherUnused
    /\ queue \in { BlockingQueue(max_size) : max_size \in 0..MaxQueueSize }
    /\ threads = [t \in Producers \cup {Consumer} |->
                    [pc |-> "ready", calls |-> 0, item |-> <<>>, blocked |-> FALSE]]
    /\ queue_history = [pushed |-> <<>>, popped |-> <<>>, at_shutdown |-> <<>>,
                        after_shutdown |-> <<>>, last |-> NoOperation]

\* A producer calls push with its next item.
producer_calls_push(p) ==
    /\ threads[p].pc = "ready"
    /\ threads[p].calls < MaxItems
    /\ threads' = [threads EXCEPT
                      ![p].pc = "push",
                      ![p].calls = @ + 1,
                      ![p].item = <<[producer |-> p, seq |-> threads[p].calls + 1]>>]
    /\ UNCHANGED << queue, queue_history, dispatcher_vars, latency_calls >>

\* push, from the return of its wait: the item is queued, or dropped when
\* the queue is shut down.
push(p) ==
    /\ threads[p].pc = "push"
    /\ PushCanProceed(queue)
    /\ queue' = PushResult(queue, threads[p].item[1])
    /\ threads' = [threads EXCEPT ![p].pc = "ready", ![p].item = <<>>,
                                  ![p].blocked = FALSE]
    /\ queue_history' =
         [queue_history EXCEPT
            !.pushed = IF Len(queue'.queue_) > Len(queue.queue_)
                       THEN Append(@, threads[p].item[1]) ELSE @,
            !.last = [op |-> "push", thread |-> p,
                      closed |-> is_shutdown(queue), before |-> queue.queue_,
                      ok |-> Len(queue'.queue_) > Len(queue.queue_),
                      item |-> threads[p].item, blocked |-> threads[p].blocked]]
    /\ UNCHANGED << dispatcher_vars, latency_calls >>

\* The consumer calls wait_and_pop.
consumer_calls_wait_and_pop ==
    /\ threads[Consumer].pc = "ready"
    /\ threads[Consumer].calls < MaxPops
    /\ threads' = [threads EXCEPT ![Consumer].pc = "wait_and_pop",
                                  ![Consumer].calls = @ + 1]
    /\ UNCHANGED << queue, queue_history, dispatcher_vars, latency_calls >>

\* wait_and_pop, from the return of its wait: the front item is handed
\* out, or false is returned when the queue is shut down and empty.
wait_and_pop ==
    /\ threads[Consumer].pc = "wait_and_pop"
    /\ WaitAndPopCanProceed(queue)
    /\ LET ok == WaitAndPopSucceeds(queue)
           item == IF ok THEN <<Front(queue)>> ELSE <<>>
       IN  /\ queue' = IF ok THEN PopResult(queue) ELSE queue
           /\ queue_history' =
                [queue_history EXCEPT
                   !.popped = @ \o item,
                   !.after_shutdown =
                       IF is_shutdown(queue)
                       THEN Append(@, [ok |-> ok, item |-> item]) ELSE @,
                   !.last = [op |-> "wait_and_pop", thread |-> Consumer,
                             closed |-> is_shutdown(queue),
                             before |-> queue.queue_, ok |-> ok, item |-> item,
                             blocked |-> FALSE]]
    /\ threads' = [threads EXCEPT ![Consumer].pc = "ready"]
    /\ UNCHANGED << dispatcher_vars, latency_calls >>

\* try_pop: it never waits.
try_pop ==
    /\ threads[Consumer].pc = "ready"
    /\ threads[Consumer].calls < MaxPops
    /\ LET ok == TryPopSucceeds(queue)
           item == IF ok THEN <<Front(queue)>> ELSE <<>>
       IN  /\ queue' = IF ok THEN PopResult(queue) ELSE queue
           /\ queue_history' =
                [queue_history EXCEPT
                   !.popped = @ \o item,
                   !.last = [op |-> "try_pop", thread |-> Consumer,
                             closed |-> is_shutdown(queue),
                             before |-> queue.queue_, ok |-> ok, item |-> item,
                             blocked |-> FALSE]]
    /\ threads' = [threads EXCEPT ![Consumer].calls = @ + 1]
    /\ UNCHANGED << dispatcher_vars, latency_calls >>

\* shutdown, called once by the owner of the queue: every waiter is woken.
shutdown ==
    /\ ~is_shutdown(queue)
    /\ queue' = QueueShutdown(queue)
    /\ threads' = [t \in DOMAIN threads |->
                     [threads[t] EXCEPT
                        !.blocked = threads[t].pc = "push" /\ ~PushCanProceed(queue)]]
    /\ queue_history' =
         [queue_history EXCEPT
            !.at_shutdown = queue.queue_,
            !.last = [NoOperation EXCEPT !.op = "shutdown",
                                         !.before = queue.queue_]]
    /\ UNCHANGED << dispatcher_vars, latency_calls >>

QueueNext ==
    \/ \E p \in Producers : producer_calls_push(p)
    \/ \E p \in Producers : push(p)
    \/ consumer_calls_wait_and_pop
    \/ wait_and_pop
    \/ try_pop
    \/ shutdown

SpecQueue == QueueInit /\ [][QueueNext]_vars

(***************************************************************************)
(* C1.  Monotonic clock: current_simulation_time_, the effective timestamp *)
(* of the event popped last from the MEPQ, never decreases in a run,       *)
(* however the dispatch thread and the workers interleave.                 *)
(***************************************************************************)
C1_ClockMonotonic ==
    [][current_simulation_time_' >= current_simulation_time_]_vars

(***************************************************************************)
(* C2.  Every ack and every fill that simulate_order_lifecycle pushes into *)
(* the MEPQ has an effective timestamp strictly greater than               *)
(* current_simulation_time_ at the moment of the push, when the request    *)
(* was decided at the arrival timestamp of an event its strategy received. *)
(***************************************************************************)
DecidedOnReceivedEvent(order_req) ==
    \E r \in 1..Len(strategy_runners_) :
        /\ strategy_runners_[r].id = order_req.strategy_id
        /\ \E j \in 1..Len(pushed[r]) :
               get_effective_timestamp(pushed[r][j]) = order_req.request_timestamp

C2_AcksAfterCurrentTime ==
    \A k \in 1..Len(lifecycle_log) :
        DecidedOnReceivedEvent(lifecycle_log[k].request) =>
            /\ get_effective_timestamp(lifecycle_log[k].new_ack)
                   > lifecycle_log[k].sim_time
            /\ lifecycle_log[k].fill_ack # <<>> =>
                   get_effective_timestamp(lifecycle_log[k].fill_ack[1])
                       > lifecycle_log[k].sim_time

(***************************************************************************)
(* C3.  Broadcast completeness: when a STRATEGY_SHUTDOWN event is pushed   *)
(* into a mailbox, every market-data event loaded from the file has been   *)
(* pushed into that mailbox before it, and exactly once.                   *)
(***************************************************************************)
LoadedFeed ==
    [i \in 1..Len(historical_data) |->
        [historical_data[i] EXCEPT !.arrival_timestamp =
            historical_data[i].exchange_timestamp
                + get_market_data_latency(latency_model_)]]

Occurrences(seq, e, upto) == Cardinality({ j \in 1..upto : seq[j] = e })

C3_BroadcastComplete ==
    \A r \in 1..Len(pushed) :
        \A k \in 1..Len(pushed[r]) :
            IsStrategyShutdown(pushed[r][k]) =>
                \A i \in 1..Len(LoadedFeed) :
                    /\ Occurrences(pushed[r], LoadedFeed[i], k - 1)
                         = Occurrences(LoadedFeed, LoadedFeed[i], Len(LoadedFeed))
                    /\ Occurrences(pushed[r], LoadedFeed[i], Len(pushed[r]))
                         = Occurrences(LoadedFeed, LoadedFeed[i], Len(LoadedFeed))

(***************************************************************************)
(* C4.  Termination: run returns.  Every run is finite, so run returns     *)
(* under fair scheduling exactly when, as long as it has not returned (and *)
(* the process has not aborted), the dispatch thread or a worker can take  *)
(* a step: the dispatch thread never waits forever.                        *)
(***************************************************************************)
\* The dispatch thread is not waiting: in a push on a full open mailbox, or
\* in a join on a worker that has not finished.
DispatchCanStep ==
    \/ pc \in {"idle", "loop", "process_orders"}
    \/ /\ pc = "push"
       /\ PushCanProceed(strategy_runners_[Head(pending).runner].input_queue)
    \/ /\ pc = "shutdown"
       /\ pending # <<>>
       /\ PushCanProceed(strategy_runners_[Head(pending).runner].input_queue)
    \/ /\ pc = "shutdown"
       /\ pending = <<>>
       /\ \A r \in 1..Len(strategy_runners_) :
              strategy_runners_[r].thread \in {"none", "finished"}

\* The worker is not waiting in wait_and_pop on an empty open mailbox.
WorkerCanStep(r) ==
    \/ strategy_runners_[r].thread \in {"on_init", "loop", "on_event", "on_shutdown"}
    \/ /\ strategy_runners_[r].thread = "wait_and_pop"
       /\ WaitAndPopCanProceed(strategy_runners_[r].input_queue)

C4_RunReturns ==
    \/ pc \in {"done", "crashed"}
    \/ DispatchCanStep
    \/ \E r \in 1..Len(strategy_runners_) : WorkerCanStep(r)

(***************************************************************************)
(* C5.  The events pushed into the mailbox of a strategy appear in         *)
(* non-decreasing order of effective timestamp.                            *)
(***************************************************************************)
C5_MailboxOrder ==
    \A r \in 1..Len(pushed) :
        \A k \in 1..Len(pushed[r]) - 1 :
            get_effective_timestamp(pushed[r][k])
                <= get_effective_timestamp(pushed[r][k + 1])

(***************************************************************************)
(* C10.  Determinism: a run over the same file, latency configuration and  *)
(* strategies emits the same set of ack and fill events (status, fill      *)
(* price, fill quantity and arrival timestamp of each request) as the run  *)
(* before it.                                                              *)
(***************************************************************************)
C10_SameAcksEveryRun ==
    (pc = "done" /\ run_no > 1) => Emitted = previous_run

(***************************************************************************)
(* C6.  Strict causality of acks: the Acknowledged event of every request  *)
(* arrives strictly after the request's decision timestamp, whatever the   *)
(* six non-negative durations of the latency configuration.                *)
(***************************************************************************)
C6_AckAfterDecision ==
    \A k \in 1..Len(lifecycle_log) :
        lifecycle_log[k].new_ack.arrival_timestamp
            > lifecycle_log[k].request.request_timestamp

(***************************************************************************)
(* C7.  Fill never precedes ack: the fill event of every request that      *)
(* fills arrives at least one nanosecond after its Acknowledged event.     *)
(***************************************************************************)
C7_FillAfterAckPlusOne ==
    \A k \in 1..Len(lifecycle_log) :
        lifecycle_log[k].fill_ack # <<>> =>
            lifecycle_log[k].fill_ack[1].arrival_timestamp
                >= lifecycle_log[k].new_ack.arrival_timestamp + 1

(***************************************************************************)
(* C8.  Conservation of quantity: on the Acknowledged event and on the     *)
(* fill event of every request, cumulative_filled_quantity plus            *)
(* leaves_quantity is the request's quantity.                              *)
(***************************************************************************)
Conserves(ack, order_req) ==
    ack.cumulative_filled_quantity + ack.leaves_quantity = order_req.quantity

C8_QuantityConserved ==
    \A k \in 1..Len(lifecycle_log) :
        /\ Conserves(lifecycle_log[k].new_ack, lifecycle_log[k].request)
        /\ lifecycle_log[k].fill_ack # <<>> =>
               Conserves(lifecycle_log[k].fill_ack[1], lifecycle_log[k].request)

\* A request larger than the level it hits: a partial fill with a remainder.
C8_Witness ==
    \E k \in 1..Len(lifecycle_log) :
        /\ lifecycle_log[k].fill_ack # <<>>
        /\ lifecycle_log[k].fill_ack[1].status = "PARTIALLY_FILLED"
        /\ lifecycle_log[k].fill_ack[1].cumulative_filled_quantity > 0
        /\ lifecycle_log[k].fill_ack[1].leaves_quantity > 0

(***************************************************************************)
(* C9.  Book non-negativity: after every match each side's size, as        *)
(* get_bid_size and get_ask_size expose it, is absent or strictly          *)
(* positive: a level whose size reaches zero has price and size cleared.   *)
(***************************************************************************)
SizeAbsentOrPositive(size) == size.has => size.val > 0

C9_BookSizesAbsentOrPositive ==
    \A k \in 1..Len(lifecycle_log) :
        /\ SizeAbsentOrPositive(get_bid_size(lifecycle_log[k].book_after))
        /\ SizeAbsentOrPositive(get_ask_size(lifecycle_log[k].book_after))

(***************************************************************************)
(* C11.  Every ack and every fill that simulate_order_lifecycle pushed     *)
(* into the MEPQ has been handed to on_order_ack of the strategy that sent *)
(* the request by the time that strategy's worker has stopped: none is     *)
(* left behind a STRATEGY_SHUTDOWN event or dropped.                       *)
(***************************************************************************)
Delivered(r, ack) ==
    \E j \in 1..Len(callbacks[r]) :
        /\ callbacks[r][j].callback = "on_order_ack"
        /\ callbacks[r][j].event = <<ack>>

C11_AcksDelivered ==
    \A r \in 1..Len(strategy_runners_) :
        strategy_runners_[r].thread = "finished" =>
            \A k \in 1..Len(lifecycle_log) :
                lifecycle_log[k].request.strategy_id = strategy_runners_[r].id =>
                    /\ Delivered(r, lifecycle_log[k].new_ack)
                    /\ lifecycle_log[k].fill_ack # <<>> =>
                           Delivered(r, lifecycle_log[k].fill_ack[1])

(***************************************************************************)
(* C12.  Callback protocol of a worker: on_init is called once, before any *)
(* other callback; on_shutdown is called once, only after the worker has   *)
(* dequeued a STRATEGY_SHUTDOWN event from its mailbox, and no callback    *)
(* follows it.                                                             *)
(***************************************************************************)
\* The events the worker of runner r has popped from its mailbox so far.
Dequeued(r) ==
    SubSeq(pushed[r], 1,
           Len(pushed[r]) - Len(strategy_runners_[r].input_queue.queue_))

C12_CallbackProtocol ==
    \A r \in 1..Len(strategy_runners_) :
        LET cb == callbacks[r]
        IN  /\ \A j \in 1..Len(cb) : cb[j].callback = "on_init" <=> j = 1
            /\ \A j \in 1..Len(cb) :
                   cb[j].callback = "on_shutdown" =>
                       /\ j = Len(cb)
                       /\ \E k \in 1..Len(Dequeued(r)) :
                              IsStrategyShutdown(Dequeued(r)[k])
            /\ strategy_runners_[r].thread = "finished" =>
                   cb[Len(cb)].callback = "on_shutdown"

(***************************************************************************)
(* C13.  Empty feed with one registered strategy: the strategy observes    *)
(* exactly the callbacks on_init, then on_shutdown; the STRATEGY_SHUTDOWN  *)
(* event ends the worker's loop without being handed to on_sim_control,    *)
(* and no OrderAck event is ever emitted.                                  *)
(***************************************************************************)
EmptyFeedOneStrategy ==
    historical_data = <<>> /\ Len(strategy_runners_) = 1 /\ pc # "idle"

CallbackNames(r) == [j \in 1..Len(callbacks[r]) |-> callbacks[r][j].callback]

NoAckEmitted ==
    /\ lifecycle_log = <<>>
    /\ \A i \in 1..Len(main_event_pq_) : main_event_pq_[i].type # "ORDER_ACK"
    /\ \A j \in 1..Len(pushed[1]) : pushed[1][j].type # "ORDER_ACK"

C14_OneEndOfFeed ==
    /\ Len(end_of_feed_log) <= 1
    /\ \A k \in 1..Len(end_of_feed_log) :
           get_effective_timestamp(end_of_feed_log[k].event)
               = end_of_feed_log[k].sim_time + EndOfFeedDelay
    /\ pc \in {"shutdown", "done"} => Len(end_of_feed_log) = 1

(***************************************************************************)
(* C15.  A strategy callback that throws terminates neither its worker nor *)
(* the simulation: the process goes on after the exception.                *)
(***************************************************************************)
C15_CallbackExceptionSurvived ==
    \A r \in 1..Len(callbacks) :
        \A j \in 1..Len(callbacks[r]) :
            callbacks[r][j].threw => pc # "crashed"

(***************************************************************************)
(* C16.  Thread confinement of current_simulation_time_: no worker is      *)
(* about to read it while the dispatch thread is about to write it.        *)
(***************************************************************************)
\* The worker's next step is on_init(current_simulation_time_) or
\* on_shutdown(current_simulation_time_).
ReadsClock(r) == strategy_runners_[r].thread \in {"on_init", "on_shutdown"}

\* The dispatch thread's next step pops an event and assigns its timestamp
\* to current_simulation_time_.
WritesClock ==
    /\ pc = "loop"
    /\ simulation_running_
    /\ process_incoming_order_requests.pq # <<>>

C16_ClockConfined ==
    \A r \in 1..Len(strategy_runners_) : ~(ReadsClock(r) /\ WritesClock)

(***************************************************************************)
(* C17.  BlockingQueue is FIFO: the items the consumer pops are, in order, *)
(* the items pushed, in the order their pushes put them into the queue,    *)
(* for any interleaving of the threads; the items of each producer are     *)
(* popped in that producer's push order.                                   *)
(***************************************************************************)
C17_FIFO ==
    LET popped == queue_history.popped
    IN  /\ Len(popped) <= Len(queue_history.pushed)
        /\ \A j \in 1..Len(popped) : popped[j] = queue_history.pushed[j]
        /\ \A i, j \in 1..Len(popped) :
               (i < j /\ popped[i].producer = popped[j].producer) =>
                   popped[i].seq < popped[j].seq

\* Three items of two producers popped from a queue of capacity one.
C17_Witness ==
    /\ queue.max_size_ = 1
    /\ Len(queue_history.popped) >= 3
    /\ \A p \in Producers :
           \E j \in 1..Len(queue_history.popped) :
               queue_history.popped[j].producer = p

(***************************************************************************)
(* C18.  After shutdown of a queue holding k items, the next k             *)
(* wait_and_pop calls succeed and return those items in FIFO order, every  *)
(* later wait_and_pop returns false, and none of them waits; on an empty   *)
(* queue that is shut down wait_and_pop returns false at once.             *)
(***************************************************************************)
C18_DrainAfterShutdown ==
    is_shutdown(queue) =>
        /\ threads[Consumer].pc = "wait_and_pop" => WaitAndPopCanProceed(queue)
        /\ \A j \in 1..Len(queue_history.after_shutdown) :
               LET result == queue_history.after_shutdown[j]
               IN  IF j <= Len(queue_history.at_shutdown)
                   THEN result.ok /\ result.item = <<queue_history.at_shutdown[j]>>
                   ELSE ~result.ok

\* Two items drained after the shutdown, then a wait_and_pop returning false.
C18_Witness ==
    /\ is_shutdown(queue)
    /\ Len(queue_history.at_shutdown) = 2
    /\ Len(queue_history.after_shutdown) = 3
    /\ ~queue_history.after_shutdown[3].ok

(***************************************************************************)
(* C19.  try_pop returns the oldest item whenever the queue holds one,     *)
(* shut down or not, and reports no item only when the queue is empty.     *)
(***************************************************************************)
C19_TryPopDrainsAfterShutdown ==
    queue_history.last.op = "try_pop" =>
        IF queue_history.last.before # <<>>
        THEN /\ queue_history.last.ok
             /\ queue_history.last.item = <<Head(queue_history.last.before)>>
        ELSE ~queue_history.last.ok

(***************************************************************************)
(* C20.  push on a queue that is shut down returns without waiting and     *)
(* drops its item, the contents of the queue unchanged; so does the push   *)
(* of a producer that was waiting on a full queue when shutdown was        *)
(* called.                                                                 *)
(***************************************************************************)
C20_PushOnClosedIsNoOp ==
    /\ is_shutdown(queue) =>
           \A p \in Producers : threads[p].pc = "push" => PushCanProceed(queue)
    /\ (queue_history.last.op = "push" /\ queue_history.last.closed) =>
           /\ ~queue_history.last.ok
           /\ queue.queue_ = queue_history.last.before
           /\ \A j \in 1..Len(queue_history.pushed) :
                  <<queue_history.pushed[j]>> # queue_history.last.item

\* The push of a producer that was waiting on a full queue when shutdown
\* was called has returned.
C20_Witness ==
    /\ queue_history.last.op = "push"
    /\ queue_history.last.closed
    /\ queue_history.last.blocked
    /\ Len(queue_history.last.before) = queue.max_size_

(***************************************************************************)
(* BlockingQueue with its mutex and condition variables: two producer      *)
(* threads, the consumer thread and the thread owning the queue.  A step   *)
(* is what a thread does under the mutex between two waits.  A thread in   *)
(* the wait set of a condition variable runs again only once it is         *)
(* notified or woken spuriously, and then evaluates the predicate of its   *)
(* wait again; notify_one wakes any one waiter, notify_all every waiter.   *)
(* The queue is bounded.  The consumer pops until it has every item or     *)
(* finds the queue closed, as the consumer of the multithreaded test does. *)
(***************************************************************************)
Owner == "O"
QueueThreads == Producers \cup {Consumer, Owner}
TotalItems == Cardinality(Producers) * MaxItems

\* The threads in the wait set of a condition variable.
Waiters(ths, cv) == { t \in DOMAIN ths : ths[t].wait = cv }

\* notify_all with the slip of waking nobody.
NotifyAll_WakesNobody(ths, cv) == ths

\* notify_all: every waiter leaves the wait set.
NotifyAll(ths, cv) ==
    [t \in DOMAIN ths |->
        IF ths[t].wait = cv THEN [ths[t] EXCEPT !.wait = ""] ELSE ths[t]]

\* notify_one with the slip of waking nobody.
NotifyOne_WakesNobody(ths, cv) == {ths}

\* notify_one: the possible outcomes, one per waiter; nothing without one.
NotifyOne(ths, cv) ==
    IF Waiters(ths, cv) = {} THEN {ths}
    ELSE { [ths EXCEPT ![t].wait = ""] : t \in Waiters(ths, cv) }

\* What timed_wait_and_pop hands back to its caller: the bool it returns
\* and the item reference, written only when an item is popped.
TimedPopReturn(q, expired) ==
    IF expired THEN [returned |-> FALSE, item |-> <<>>]
    ELSE IF is_shutdown(q) /\ QueueEmpty(q) THEN [returned |-> FALSE, item |-> <<>>]
    ELSE IF ~QueueEmpty(q) THEN [returned |-> TRUE, item |-> <<Front(q)>>]
    ELSE [returned |-> FALSE, item |-> <<>>]

NoTimedPop == [case |-> "none", before |-> <<>>, after |-> <<>>,
               returned |-> FALSE, item |-> <<>>]

\* wait: the condition variable the thread waits on, if any; blocked: the
\* thread was waiting when shutdown set the flag and its call has not
\* returned yet; misses: the consumer's try_pop and timed_wait_and_pop calls.
QueueThreadsInit ==
    /\ DispatcherUnused
    /\ queue \in { BlockingQueue(max_size) : max_size \in 1..MaxQueueSize }
    /\ threads = [t \in QueueThreads |->
                    [pc |-> "ready", calls |-> 0, item |-> <<>>,
                     blocked |-> FALSE, wait |-> "", misses |-> 0]]
    /\ queue_history = [pushed |-> <<>>, popped |-> <<>>,
                        timed |-> NoTimedPop, released |-> {}]

\* The consumer's loop goes on while items are missing.
ConsumerContinues ==
    /\ threads[Consumer].pc = "ready"
    /\ Len(queue_history.popped) < TotalItems

\* A producer calls push with its next item.
call_push(p) ==
    /\ threads[p].pc = "ready"
    /\ threads[p].calls < MaxItems
    /\ threads' = [threads EXCEPT
                      ![p].pc = "push",
                      ![p].calls = @ + 1,
                      ![p].item = <<[producer |-> p, seq |-> threads[p].calls + 1]>>]
    /\ UNCHANGED << queue, queue_history, dispatcher_vars, latency_calls >>

\* push under the mutex: the thread waits on cv_producer_ while the queue
\* is full and open; otherwise the item is queued, or dropped and push
\* returns at once when the queue is shut down.
push_under_lock(p) ==
    /\ threads[p].pc = "push"
    /\ threads[p].wait = ""
    /\ IF ~PushCanProceed(queue)
       THEN /\ threads' = [threads EXCEPT ![p].wait = "cv_producer_"]
            /\ UNCHANGED << queue, queue_history >>
       ELSE /\ queue' = PushResult(queue, threads[p].item[1])
            /\ threads' = [threads EXCEPT
                              ![p].pc = IF is_shutdown(queue) THEN "ready"
                                        ELSE "notify",
                              ![p].item = <<>>,
                              ![p].blocked = FALSE]
            /\ queue_history' =
                 [queue_history EXCEPT
                    !.pushed = IF is_shutdown(queue) THEN @
                               ELSE Append(@, threads[p].item[1]),
                    !.released = IF threads[p].blocked THEN @ \cup {p} ELSE @]
    /\ UNCHANGED << dispatcher_vars, latency_calls >>

\* push after the mutex is released: cv_consumer_.notify_one()
push_notify(p) ==
    /\ threads[p].pc = "notify"
    /\ \E ths \in NotifyOne(threads, "cv_consumer_") :
         threads' = [ths EXCEPT ![p].pc = "ready"]
    /\ UNCHANGED << queue, queue_history, dispatcher_vars, latency_calls >>

\* The consumer calls wait_and_pop.
call_wait_and_pop ==
    /\ ConsumerContinues
    /\ threads' = [threads EXCEPT ![Consumer].pc = "wait_and_pop"]
    /\ UNCHANGED << queue, queue_history, dispatcher_vars, latency_calls >>

\* wait_and_pop under the mutex: the thread waits on cv_consumer_ while the
\* queue is empty and open; otherwise the front item is popped and
\* cv_producer_ notified, or false is returned and the consumer's loop ends.
wait_and_pop_under_lock ==
    /\ threads[Consumer].pc = "wait_and_pop"
    /\ threads[Consumer].wait = ""
    /\ IF ~WaitAndPopCanProceed(queue)
       THEN /\ threads' = [threads EXCEPT ![Consumer].wait = "cv_consumer_"]
            /\ UNCHANGED << queue, queue_history >>
       ELSE /\ queue' = IF WaitAndPopSucceeds(queue) THEN PopResult(queue)
                        ELSE queue
            /\ \E ths \in IF WaitAndPopSucceeds(queue)
                          THEN NotifyOne(threads, "cv_producer_") ELSE {threads} :
                 threads' = [ths EXCEPT
                               ![Consumer].pc = IF WaitAndPopSucceeds(queue)
                                                THEN "ready" ELSE "done",
                               ![Consumer].blocked = FALSE]
            /\ queue_history' =
                 [queue_history EXCEPT
                    !.popped = IF WaitAndPopSucceeds(queue)
                               THEN Append(@, Front(queue)) ELSE @,
                    !.released = IF threads[Consumer].blocked
                                 THEN @ \cup {Consumer} ELSE @]
    /\ UNCHANGED << dispatcher_vars, latency_calls >>

\* The consumer calls timed_wait_and_pop.
call_timed_wait_and_pop ==
    /\ ConsumerContinues
    /\ threads[Consumer].misses < MaxMisses
    /\ threads' = [threads EXCEPT ![Consumer].pc = "timed_wait_and_pop",
                                  ![Consumer].misses = @ + 1]
    /\ UNCHANGED << queue, queue_history, dispatcher_vars, latency_calls >>

\* The return of timed_wait_and_pop: after the timeout with the predicate
\* still false (expired), or with the predicate true.
timed_wait_and_pop_returns(expired) ==
    LET ret == TimedPopReturn(queue, expired)
        case == IF expired THEN "timeout"
                ELSE IF ret.returned THEN "item" ELSE "closed"
    IN  /\ queue' = IF ret.returned THEN PopResult(queue) ELSE queue
        /\ \E ths \in IF ret.returned
                      THEN NotifyOne(threads, "cv_producer_") ELSE {threads} :
             threads' = [ths EXCEPT ![Consumer].pc = "ready",
                                    ![Consumer].wait = "",
                                    ![Consumer].blocked = FALSE]
        /\ queue_history' =
             [queue_history EXCEPT
                !.popped = @ \o ret.item,
                !.timed = [case |-> case, before |-> queue.queue_,
                           after |-> queue'.queue_, returned |-> ret.returned,
                           item |-> ret.item],
                !.released = IF threads[Consumer].blocked
                             THEN @ \cup {Consumer} ELSE @]

\* timed_wait_and_pop under the mutex, before the timeout: the thread
\* waits on cv_consumer_ while the queue is empty and open.
timed_wait_and_pop_under_lock ==
    /\ threads[Consumer].pc = "timed_wait_and_pop"
    /\ threads[Consumer].wait = ""
    /\ IF ~WaitAndPopCanProceed(queue)
       THEN /\ threads' = [threads EXCEPT ![Consumer].wait = "cv_consumer_"]
            /\ UNCHANGED << queue, queue_history >>
       ELSE timed_wait_and_pop_returns(FALSE)
    /\ UNCHANGED << dispatcher_vars, latency_calls >>

\* The timeout of wait_for: the mutex is taken again and the predicate
\* evaluated a last time.
timed_wait_expires ==
    /\ threads[Consumer].pc = "timed_wait_and_pop"
    /\ threads[Consumer].wait = "cv_consumer_"
    /\ timed_wait_and_pop_returns(~WaitAndPopCanProceed(queue))
    /\ UNCHANGED << dispatcher_vars, latency_calls >>

\* try_pop under the mutex: it never waits.
try_pop_under_lock ==
    /\ ConsumerContinues
    /\ threads[Consumer].misses < MaxMisses
    /\ queue' = IF TryPopSucceeds(queue) THEN PopResult(queue) ELSE queue
    /\ \E ths \in IF TryPopSucceeds(queue)
                  THEN NotifyOne(threads, "cv_producer_") ELSE {threads} :
         threads' = [ths EXCEPT ![Consumer].misses = @ + 1]
    /\ queue_history' =
         [queue_history EXCEPT
            !.popped = IF TryPopSucceeds(queue) THEN Append(@, Front(queue))
                       ELSE @]
    /\ UNCHANGED << dispatcher_vars, latency_calls >>

\* shutdown under the mutex: shutdown_requested_ = true
shutdown_set_flag ==
    /\ threads[Owner].pc = "ready"
    /\ queue' = QueueShutdown(queue)
    /\ threads' = [t \in DOMAIN threads |->
                     IF t = Owner THEN [threads[t] EXCEPT !.pc = "notify_consumers"]
                     ELSE [threads[t] EXCEPT !.blocked = threads[t].wait # ""]]
    /\ UNCHANGED << queue_history, dispatcher_vars, latency_calls >>

\* shutdown after the mutex is released: cv_consumer_.notify_all()
shutdown_notify_consumers ==
    /\ threads[Owner].pc = "notify_consumers"
    /\ threads' = [NotifyAll(threads, "cv_consumer_") EXCEPT
                      ![Owner].pc = "notify_producers"]
    /\ UNCHANGED << queue, queue_history, dispatcher_vars, latency_calls >>

\* and then cv_producer_.notify_all()
shutdown_notify_producers ==
    /\ threads[Owner].pc = "notify_producers"
    /\ threads' = [NotifyAll(threads, "cv_producer_") EXCEPT ![Owner].pc = "done"]
    /\ UNCHANGED << queue, queue_history, dispatcher_vars, latency_calls >>

\* A wait may return without a notification.
spurious_wakeup(t) ==
    /\ threads[t].wait # ""
    /\ threads' = [threads EXCEPT ![t].wait = ""]
    /\ UNCHANGED << queue, queue_history, dispatcher_vars, latency_calls >>

ConsumerStep ==
    \/ call_wait_and_pop
    \/ wait_and_pop_under_lock
    \/ call_timed_wait_and_pop
    \/ timed_wait_and_pop_under_lock
    \/ timed_wait_expires
    \/ try_pop_under_lock

QueueThreadsNext ==
    \/ \E p \in Producers : call_push(p)
    \/ \E p \in Producers : push_under_lock(p)
    \/ \E p \in Producers : push_notify(p)
    \/ call_wait_and_pop
    \/ wait_and_pop_under_lock
    \/ call_timed_wait_and_pop
    \/ timed_wait_and_pop_under_lock
    \/ timed_wait_expires
    \/ try_pop_under_lock
    \/ shutdown_set_flag
    \/ shutdown_notify_consumers
    \/ shutdown_notify_producers
    \/ \E t \in Producers \cup {Consumer} : spurious_wakeup(t)

SpecQueueThreads == QueueThreadsInit /\ [][QueueThreadsNext]_vars

\* Every thread that can run does run in the end, each deadline expires,
\* and a shutdown under way goes on to its notifications; nothing obliges
\* the owner to call shutdown, nor a wait to return spuriously.
FairQueueThreads ==
    /\ SpecQueueThreads
    /\ \A p \in Producers : WF_vars(call_push(p))
    /\ \A p \in Producers : WF_vars(push_under_lock(p))
    /\ \A p \in Producers : WF_vars(push_notify(p))
    /\ WF_vars(ConsumerStep)
    /\ WF_vars(shutdown_notify_consumers)
    /\ WF_vars(shutdown_notify_producers)

(***************************************************************************)
(* C21.  A bounded queue never holds more than max_size items, whatever    *)
(* the interleaving of producers and consumer; and a push that finds the   *)
(* queue full and open does not return: it stays in push until a pop has   *)
(* made room or the queue is shut down.                                    *)
(***************************************************************************)
C21_BoundRespected ==
    /\ [](queue.max_size_ > 0 => Len(queue.queue_) <= queue.max_size_)
    /\ [][\A p \in Producers :
            (/\ threads[p].pc = "push"
             /\ queue.max_size_ > 0
             /\ Len(queue.queue_) >= queue.max_size_
             /\ ~is_shutdown(queue))
            => threads'[p].pc = "push"]_vars

\* Both producers waiting on a full, open queue of capacity one.
C21_Witness ==
    /\ queue.max_size_ = 1
    /\ Len(queue.queue_) = 1
    /\ ~is_shutdown(queue)
    /\ \A p \in Producers : threads[p].wait = "cv_producer_"

(***************************************************************************)
(* C22.  Once shutdown has set the flag, every thread that was waiting in  *)
(* push, wait_and_pop or timed_wait_and_pop at that moment returns from    *)
(* its call in the end; no thread starts to wait afterwards.               *)
(***************************************************************************)
StillBlocked(t) == threads[t].blocked

C22_ShutdownWakesWaiters ==
    /\ is_shutdown(queue) ~> (\A t \in Producers \cup {Consumer} : ~StillBlocked(t))
    /\ [][is_shutdown(queue) =>
            \A t \in Producers \cup {Consumer} :
                threads'[t].wait # "" => threads[t].wait # ""]_vars

\* Both producers were waiting on a full queue when shutdown set the flag,
\* and both have returned.
C22_Witness ==
    /\ is_shutdown(queue)
    /\ Producers \subseteq queue_history.released

(***************************************************************************)
(* C23.  Several producers and one consumer: the items popped are items    *)
(* pushed, none popped twice; and unless the queue is shut down, every     *)
(* push returns and every item pushed is popped in the end, so that no     *)
(* thread is left waiting.                                                 *)
(***************************************************************************)
AllItems == { [producer |-> p, seq |-> n] : p \in Producers, n \in 1..MaxItems }

Range(seq) == { seq[j] : j \in 1..Len(seq) }

AllDelivered ==
    /\ \A p \in Producers : threads[p].pc = "ready" /\ threads[p].calls = MaxItems
    /\ Range(queue_history.pushed) = AllItems
    /\ Range(queue_history.popped) = AllItems
    /\ Len(queue_history.popped) = TotalItems
    /\ QueueEmpty(queue)

C23_EveryItemPoppedOnce ==
    /\ [](/\ Range(queue_history.popped) \subseteq Range(queue_history.pushed)
          /\ Cardinality(Range(queue_history.popped)) = Len(queue_history.popped)
          /\ Range(queue_history.pushed) \subseteq AllItems)
    /\ (<>is_shutdown(queue)) \/ <>AllDelivered

\* Every item went through an open queue of capacity one.
C23_Witness ==
    /\ queue.max_size_ = 1
    /\ ~is_shutdown(queue)
    /\ AllDelivered

(***************************************************************************)
(* C24.  timed_wait_and_pop: what it returns when the deadline expires on  *)
(* an empty open queue differs from what it returns on a queue that is     *)
(* closed, and the queue is left as it was; when an item is there it is    *)
(* returned.                                                               *)
(***************************************************************************)
ClosedEmptyQueue == QueueShutdown(BlockingQueue(queue.max_size_))

C24_TimedPopEmptyDistinct ==
    /\ queue_history.timed.case = "timeout" =>
           /\ queue_history.timed.before = <<>>
           /\ queue_history.timed.after = <<>>
           /\ [returned |-> queue_history.timed.returned,
               item |-> queue_history.timed.item]
                  # TimedPopReturn(ClosedEmptyQueue, FALSE)
    /\ queue_history.timed.case = "item" =>
           /\ queue_history.timed.returned
           /\ queue_history.timed.item = <<Head(queue_history.timed.before)>>

(***************************************************************************)
(* LatencyModel on its own: each function called on timestamps from zero   *)
(* to Timestamp::max() under every configuration, and the lifecycle        *)
(* simulator called on requests decided at several times.  Timestamp plus  *)
(* Duration adds two signed 64-bit counts of nanoseconds; when the sum     *)
(* does not fit, the behaviour is undefined, and the builds either wrap    *)
(* around or trap.                                                         *)
(***************************************************************************)
\* What the addition yields for a sum of non-negative terms: the value
\* returned, as a sequence of one element, or nothing when the call traps.
TimestampSum(sum) ==
    IF sum <= TimestampMax THEN {<<sum>>}
    ELSE {<<(sum - TimestampMax) - TimestampMax - 2>>, <<>>}

LatencyInputs ==
    {0, 1, 50000, FeedGap, TimestampMax - 50000, TimestampMax - 1, TimestampMax}

\* The sum each function asks for.
LatencyResult(cfg, function, t) ==
    CASE function = "order_effectively_sent_ts" ->
             t + get_strategy_processing_latency(cfg)
      [] function = "get_order_arrival_at_exchange_ts" ->
             get_order_arrival_at_exchange_ts(cfg, t)
      [] function = "get_ack_arrival_at_strategy_ts" ->
             get_ack_arrival_at_strategy_ts(cfg, t)
      [] function = "get_fill_arrival_at_strategy_ts" ->
             get_fill_arrival_at_strategy_ts(cfg, t)

\* Market buys and a limit buy of one unit, decided at the time given.
LatencyRequests(decision_ts) ==
    { OrderRequest("S1", 1, "EURUSD", "BUY", "MARKET", INVALID_PRICE, quantity,
                   decision_ts) : quantity \in 1..MaxQty }
    \cup { OrderRequest("S1", 1, "EURUSD", "BUY", "LIMIT", 1, 1, decision_ts) }

\* The book empty, and holding FeedQuoteA.
LatencyBooks == { EmptyBook, update_quote(EmptyBook, "EURUSD", FeedQuoteA(0)) }

LatencyInit ==
    /\ historical_data = <<>>
    /\ latency_model_ \in LatencyConfigs
    /\ csv_parser_ = "null"
    /\ main_event_pq_ = <<>>
    /\ incoming_order_requests_ = BlockingQueue(0)
    /\ strategy_runners_ = <<>>
    /\ strategy_map_ = [id \in StrategyIds |-> NoRunner]
    /\ current_simulation_time_ = TimestampMin
    /\ simulation_running_ = FALSE
    /\ next_exchange_order_id_ = 1
    /\ order_books_ = [sym \in Symbols |-> EmptyBook]
    /\ data_feed_ended_signal_pushed = FALSE
    /\ pc = "idle"
    /\ pending = <<>>
    /\ lifecycle_log = <<>>
    /\ pushed = <<>>
    /\ run_no = 1
    /\ previous_run = {}
    /\ callbacks = <<>>
    /\ end_of_feed_log = <<>>
    /\ QueueUnused
    /\ LatencyUnused

\* One call of a latency function; the history keeps the last call.
call_latency_function ==
    /\ \E function \in {"order_effectively_sent_ts",
                         "get_order_arrival_at_exchange_ts",
                         "get_ack_arrival_at_strategy_ts",
                         "get_fill_arrival_at_strategy_ts"},
          t \in LatencyInputs :
         \E outcome \in TimestampSum(LatencyResult(latency_model_, function, t)) :
            latency_calls' = <<[function |-> function, input |-> t,
                                outcome |-> outcome]>>
    /\ lifecycle_log' = <<>>
    /\ UNCHANGED << historical_data, latency_model_, csv_parser_, main_event_pq_,
                    incoming_order_requests_, strategy_runners_, strategy_map_,
                    current_simulation_time_, simulation_running_,
                    next_exchange_order_id_, order_books_,
                    data_feed_ended_signal_pushed, pc, pending, pushed, run_no,
                    previous_run, callbacks, end_of_feed_log, queue_vars >>

\* One call of simulate_order_lifecycle on a request decided far from
\* Timestamp::max(); the history keeps the last call.
call_simulate_order_lifecycle ==
    /\ \E decision_ts \in {0, 1, 50000, FeedGap}, book \in LatencyBooks :
         \E req \in LatencyRequests(decision_ts) :
            lifecycle_log' =
                ApplyLifecycle([DispatcherCore EXCEPT
                                   !.books = [@ EXCEPT !["EURUSD"] = book],
                                   !.log = <<>>],
                               req, decision_ts).log
    /\ latency_calls' = <<>>
    /\ UNCHANGED << historical_data, latency_model_, csv_parser_, main_event_pq_,
                    incoming_order_requests_, strategy_runners_, strategy_map_,
                    current_simulation_time_, simulation_running_,
                    next_exchange_order_id_, order_books_,
                    data_feed_ended_signal_pushed, pc, pending, pushed, run_no,
                    previous_run, callbacks, end_of_feed_log, queue_vars >>

SpecLatency ==
    LatencyInit /\ [][call_latency_function \/ call_simulate_order_lifecycle]_vars

(***************************************************************************)
(* C25.  For every input timestamp and configuration, each LatencyModel   *)
(* function returns the Timestamp sum of its input and exactly the         *)
(* configured constants: the order network latency; the order processing   *)
(* plus the ack network latency; the fill processing plus the ack network  *)
(* latency.                                                                *)
(***************************************************************************)
C25_ExactConstants ==
    \A k \in 1..Len(latency_calls) :
        LET call == latency_calls[k]
            t == call.input
            cfg == latency_model_
            expected ==
                CASE call.function = "get_order_arrival_at_exchange_ts" ->
                         t + cfg.order_network_latency_strat_to_exch
                  [] call.function = "get_ack_arrival_at_strategy_ts" ->
                         t + cfg.exchange_order_processing_latency
                           + cfg.ack_network_latency_exch_to_strat
                  [] call.function = "get_fill_arrival_at_strategy_ts" ->
                         t + cfg.exchange_fill_processing_latency
                           + cfg.ack_network_latency_exch_to_strat
                  [] OTHER -> t
        IN  call.function # "order_effectively_sent_ts"
                => call.outcome \in TimestampSum(expected)

\* get_fill_arrival_at_strategy_ts under the default configuration.
C25_Witness ==
    /\ latency_model_ = DefaultConfig
    /\ latency_calls = <<[function |-> "get_fill_arrival_at_strategy_ts",
                          input |-> 50000, outcome |-> <<85000>>]>>

(***************************************************************************)
(* C26.  End to end: the ack of a request arrives at its decision time     *)
(* plus the strategy processing, order network, order processing and ack   *)
(* network latencies, the exchange arrival being the decision time plus    *)
(* the first two; a fill, when the fill processing latency exceeds the     *)
(* order processing latency, arrives at the decision time plus the         *)
(* strategy processing, order network, fill processing and ack network     *)
(* latencies.                                                              *)
(***************************************************************************)
C26_EndToEndLatency ==
    \A k \in 1..Len(lifecycle_log) :
        LET rec == lifecycle_log[k]
            cfg == latency_model_
            ts_decision == rec.request.request_timestamp
            t_exch == ts_decision + cfg.strategy_processing_latency
                        + cfg.order_network_latency_strat_to_exch
        IN  /\ get_order_arrival_at_exchange_ts(
                   cfg, ts_decision + get_strategy_processing_latency(cfg)) = t_exch
            /\ rec.new_ack.arrival_timestamp =
                   t_exch + cfg.exchange_order_processing_latency
                          + cfg.ack_network_latency_exch_to_strat
            /\ (/\ rec.fill_ack # <<>>
                /\ cfg.exchange_fill_processing_latency
                     > cfg.exchange_order_processing_latency)
               => rec.fill_ack[1].arrival_timestamp =
                      t_exch + cfg.exchange_fill_processing_latency
                             + cfg.ack_network_latency_exch_to_strat

\* A filled market buy decided at 50000 under the default configuration.
C26_Witness ==
    /\ latency_model_ = DefaultConfig
    /\ Len(lifecycle_log) = 1
    /\ lifecycle_log[1].request.request_timestamp = 50000
    /\ lifecycle_log[1].new_ack.arrival_timestamp = 105000
    /\ lifecycle_log[1].fill_ack # <<>>
    /\ lifecycle_log[1].fill_ack[1].arrival_timestamp = 110000

(***************************************************************************)
(* C27.  The latency computations saturate: every call returns a           *)
(* timestamp not smaller than its input, Timestamp::max() when the sum     *)
(* does not fit, and never a wrapped-around value.                         *)
(***************************************************************************)
C27_LatencySaturates ==
    \A k \in 1..Len(latency_calls) :
        LET call == latency_calls[k]
        IN  /\ call.outcome # <<>>
            /\ call.outcome # <<>> => call.outcome[1] >= call.input
            /\ LatencyResult(latency_model_, call.function, call.input) > TimestampMax
                   => call.outcome = <<TimestampMax>>

(***************************************************************************)
(* C28.  On return from run, every strategy mailbox is closed and every    *)
(* strategy worker thread has terminated and been joined.                  *)
(***************************************************************************)
C28_RunReturnsClosedAndJoined ==
    pc = "done" =>
        \A r \in 1..Len(strategy_runners_) :
            /\ is_shutdown(strategy_runners_[r].input_queue)
            /\ strategy_runners_[r].thread = "finished"

\* run has returned with two strategies registered.
C28_Witness ==
    /\ pc = "done"
    /\ Len(strategy_runners_) = 2
    /\ \A r \in 1..2 : strategy_runners_[r].thread = "finished"

(***************************************************************************)
(* add_strategy called after run has returned: simulation_running_ is      *)
(* false again, so the call registers the strategy as it does before run.  *)
(***************************************************************************)
add_strategy_after_run(id) ==
    /\ pc = "done"
    /\ ~simulation_running_
    /\ Len(strategy_runners_) < StrategiesFor(historical_data)
    /\ Len(strategy_runners_) = 0 => id = "S1"
    /\ strategy_runners_' = Append(strategy_runners_, StrategyRunner(id))
    /\ strategy_map_' =
         [i \in StrategyIds |->
            IF i = id
            THEN [runner |-> Len(strategy_runners_) + 1, dangling |-> FALSE]
            ELSE IF strategy_map_[i].runner # 0
                    /\ VectorReallocates(Len(strategy_runners_))
                 THEN [strategy_map_[i] EXCEPT !.dangling = TRUE]
                 ELSE strategy_map_[i]]
    /\ pushed' = Append(pushed, <<>>)
    /\ callbacks' = Append(callbacks, <<>>)
    /\ UNCHANGED << historical_data, latency_model_, csv_parser_,
                    main_event_pq_, incoming_order_requests_,
                    current_simulation_time_, simulation_running_,
                    next_exchange_order_id_, order_books_,
                    data_feed_ended_signal_pushed, pc, pending,
                    lifecycle_log, run_no, previous_run,
                    end_of_feed_log, queue_vars, latency_calls >>

SpecRegistration ==
    Init /\ [][Next \/ \E id \in StrategyIds : add_strategy_after_run(id)]_vars

(***************************************************************************)
(* C29.  Registration is permitted only before run: once run has started,  *)
(* whether it is still executing or has returned, an add_strategy call     *)
(* leaves the runner list and the id map unchanged.                        *)
(***************************************************************************)
C29_RegistrationOnlyBeforeRun ==
    [][pc # "idle" =>
          /\ Len(strategy_runners_') = Len(strategy_runners_)
          /\ strategy_map_' = strategy_map_]_vars

(***************************************************************************)
(* C30.  Every call of simulate_order_lifecycle pushes into the MEPQ       *)
(* exactly one Acknowledged event, with leaves_quantity the request's      *)
(* quantity and cumulative_filled_quantity zero, and exactly one further   *)
(* fill event if and only if the match filled a quantity above zero; a     *)
(* market order that finds no liquidity and a passive limit order produce  *)
(* no second event.                                                        *)
(***************************************************************************)
C30_OneAckAndOptionalFill ==
    [][(main_event_pq_ = <<>> /\ main_event_pq_' # <<>>) =>
         LET rec == lifecycle_log'[1]
             req == rec.request
             book == order_books_[req.symbol]
             opposite == IF req.side = "BUY" THEN book.best_ask_price_
                                             ELSE book.best_bid_price_
             no_liquidity == req.type = "MARKET" /\ ~opposite.has
             passive ==
                 /\ req.type = "LIMIT"
                 /\ ~isnan(req.price)
                 /\ opposite.has
                 /\ IF req.side = "BUY"
                    THEN req.price < opposite.val - PRICE_EPSILON
                    ELSE req.price > opposite.val + PRICE_EPSILON
             events == { main_event_pq_'[i] : i \in 1..Len(main_event_pq_') }
         IN  /\ Len(lifecycle_log') = 1
             /\ rec.book_before = book
             /\ rec.new_ack.status = "ACKNOWLEDGED"
             /\ rec.new_ack.leaves_quantity = req.quantity
             /\ rec.new_ack.cumulative_filled_quantity = 0
             /\ Len(main_event_pq_') = 1 + Len(rec.fill_ack)
             /\ events = {rec.new_ack} \cup Range(rec.fill_ack)
             /\ Len(rec.fill_ack) <= 1
             /\ rec.fill_ack # <<>> <=> MatchOrder(book, req).filled_quantity > 0
             /\ rec.fill_ack # <<>> =>
                    rec.fill_ack[1].status \in {"FILLED", "PARTIALLY_FILLED"}
             /\ (no_liquidity \/ passive) => rec.fill_ack = <<>>]_vars

\* A call that filled: the ack and the fill are in the MEPQ.
C30_Witness ==
    /\ Len(lifecycle_log) = 1
    /\ lifecycle_log[1].fill_ack # <<>>
    /\ Len(main_event_pq_) = 2
    /\ lifecycle_log[1].new_ack.leaves_quantity = MaxQty

(***************************************************************************)
(* C31.  The fill event of a request has status FILLED exactly when the    *)
(* filled quantity is the requested quantity and PARTIALLY_FILLED          *)
(* otherwise; its last_filled_quantity and cumulative_filled_quantity are  *)
(* the filled quantity, its last_filled_price is the top price of the      *)
(* side matched, and its exchange_order_id is that of the request's        *)
(* Acknowledged event.                                                     *)
(***************************************************************************)
C31_FillEventFields ==
    \A k \in 1..Len(lifecycle_log) :
        LET rec == lifecycle_log[k]
            req == rec.request
            top == IF req.side = "BUY" THEN rec.book_before.best_ask_price_
                                       ELSE rec.book_before.best_bid_price_
            fill_qty == MatchOrder(rec.book_before, req).filled_quantity
        IN  rec.fill_ack # <<>> =>
              LET fill == rec.fill_ack[1]
              IN  /\ fill.status = IF fill_qty = req.quantity
                                   THEN "FILLED" ELSE "PARTIALLY_FILLED"
                  /\ fill.last_filled_quantity = fill_qty
                  /\ fill.cumulative_filled_quantity = fill_qty
                  /\ top.has
                  /\ fill.last_filled_price = top.val
                  /\ fill.exchange_order_id = rec.new_ack.exchange_order_id

\* A limit sell of the whole bid, filled at the bid and not at its limit.
C31_Witness ==
    /\ Len(lifecycle_log) = 1
    /\ lifecycle_log[1].request.type = "LIMIT"
    /\ lifecycle_log[1].request.side = "SELL"
    /\ lifecycle_log[1].request.price = 1
    /\ lifecycle_log[1].fill_ack # <<>>
    /\ lifecycle_log[1].fill_ack[1].status = "FILLED"
    /\ lifecycle_log[1].fill_ack[1].last_filled_price = MaxPx
    /\ lifecycle_log[1].fill_ack[1].last_filled_quantity = MaxQty

(***************************************************************************)
(* C32.  match_market_order consumes only the opposite side, the ask for   *)
(* a buy and the bid for a sell: it returns the top price of that side     *)
(* and the smaller of the quantity and the top size, and decrements that   *)
(* size by the fill; when that side is absent or the quantity is zero it   *)
(* returns (INVALID_PRICE, 0) and leaves the book unchanged; the other     *)
(* side is never modified.                                                 *)
(***************************************************************************)
C32_MarketConsumesOppositeSide ==
    \A k \in 1..Len(lifecycle_log) :
        LET rec == lifecycle_log[k]
            req == rec.request
            b == rec.book_before
            m == match_market_order(b, req.side, req.quantity)
            buy == req.side = "BUY"
            px == IF buy THEN b.best_ask_price_ ELSE b.best_bid_price_
            sz == IF buy THEN b.best_ask_size_ ELSE b.best_bid_size_
            sz_after == IF buy THEN m.book.best_ask_size_ ELSE m.book.best_bid_size_
            present == px.has /\ sz.has /\ sz.val > 0
        IN  req.type = "MARKET" =>
              /\ rec.book_after = m.book
              /\ (req.quantity > 0 /\ present) =>
                    /\ m.fill_price = px.val
                    /\ m.filled_quantity = Min(req.quantity, sz.val)
                    /\ sz_after = Some(sz.val - m.filled_quantity)
              /\ ~(req.quantity > 0 /\ present) =>
                    /\ m.fill_price = INVALID_PRICE
                    /\ m.filled_quantity = 0
                    /\ m.book = b
              /\ IF buy
                 THEN /\ m.book.best_bid_price_ = b.best_bid_price_
                      /\ m.book.best_bid_size_ = b.best_bid_size_
                 ELSE /\ m.book.best_ask_price_ = b.best_ask_price_
                      /\ m.book.best_ask_size_ = b.best_ask_size_

\* A market sell of one unit against a bid of MaxQty, the ask present.
C32_Witness ==
    /\ Len(lifecycle_log) = 1
    /\ lifecycle_log[1].request.type = "MARKET"
    /\ lifecycle_log[1].request.side = "SELL"
    /\ lifecycle_log[1].request.quantity = 1
    /\ lifecycle_log[1].book_before.best_bid_size_ = Some(MaxQty)
    /\ lifecycle_log[1].book_before.best_ask_size_ = Some(MaxQty)
    /\ lifecycle_log[1].book_after.best_bid_size_ = Some(MaxQty - 1)
    /\ lifecycle_log[1].book_after.best_ask_size_ = Some(MaxQty)

(***************************************************************************)
(* C33.  match_limit_order on a positive quantity fills if and only if     *)
(* the order is aggressive: the opposite side is present and a buy's       *)
(* limit is at least the ask less epsilon, a sell's limit at most the bid  *)
(* plus epsilon.  An aggressive limit order fills exactly like a market    *)
(* order, at the resting top price and not at the limit; a passive one     *)
(* returns (INVALID_PRICE, 0) and leaves the book unchanged.               *)
(***************************************************************************)
C33_LimitFillsIffAggressive ==
    \A k \in 1..Len(lifecycle_log) :
        LET rec == lifecycle_log[k]
            req == rec.request
            b == rec.book_before
            m == match_limit_order(b, req.side, req.price, req.quantity)
            top == IF req.side = "BUY" THEN b.best_ask_price_ ELSE b.best_bid_price_
            aggressive ==
                /\ ~isnan(req.price)
                /\ top.has
                /\ IF req.side = "BUY"
                   THEN req.price >= top.val - PRICE_EPSILON
                   ELSE req.price <= top.val + PRICE_EPSILON
        IN  req.type = "LIMIT" =>
              /\ rec.book_after = m.book
              /\ req.quantity > 0 => (m.filled_quantity > 0 <=> aggressive)
              /\ aggressive =>
                    /\ m = match_market_order(b, req.side, req.quantity)
                    /\ m.filled_quantity > 0 => m.fill_price = top.val
              /\ ~aggressive =>
                    /\ m.fill_price = INVALID_PRICE
                    /\ m.filled_quantity = 0
                    /\ m.book = b

\* A limit buy one tick under the ask, within epsilon: filled at the ask.
C33_Witness ==
    /\ Len(lifecycle_log) = 1
    /\ lifecycle_log[1].request.type = "LIMIT"
    /\ lifecycle_log[1].request.side = "BUY"
    /\ lifecycle_log[1].request.price = MaxPx - 1
    /\ lifecycle_log[1].book_before.best_ask_price_ = Some(MaxPx)
    /\ lifecycle_log[1].fill_ack # <<>>
    /\ lifecycle_log[1].fill_ack[1].last_filled_price = MaxPx

(***************************************************************************)
(* The order books under market data: the dispatch thread alone under the  *)
(* default latencies, dispatching quotes of two symbols and trades,        *)
(* simulating the lifecycle of order requests in between.  The history     *)
(* keeps the market data event dispatched last in historical_data and the  *)
(* lifecycles simulated since the last EURUSD quote in lifecycle_log.      *)
(***************************************************************************)
BookEvents ==
    { QuoteEvent(0, "EURUSD", bp, bs, ap, as) :
        bp \in {0, MaxPx}, bs \in {0, MaxQty}, ap \in {0, MaxPx}, as \in {0, MaxQty} }
    \cup { QuoteEvent(0, "GBPUSD", MaxPx, size, MaxPx, MaxQty) : size \in {0, MaxQty} }
    \cup { TradeEvent(0, "EURUSD", MaxPx, MaxQty) }

BookInit == LifecycleInit /\ latency_model_ = DefaultConfig

\* process_event_from_mepq on a quote or a trade: a quote updates the book
\* of its symbol, a trade no book.
dispatch_market_data ==
    /\ main_event_pq_ = <<>>
    /\ \E e \in BookEvents :
         /\ historical_data' = <<e>>
         /\ current_simulation_time_' = get_effective_timestamp(e)
         /\ order_books_' =
              IF e.type = "QUOTE"
              THEN [order_books_ EXCEPT ![e.symbol] = update_quote(@, e.symbol, e)]
              ELSE order_books_
         /\ lifecycle_log' =
              IF e.type = "QUOTE" /\ e.symbol = "EURUSD" THEN <<>> ELSE lifecycle_log
    /\ UNCHANGED << latency_model_, csv_parser_, main_event_pq_,
                    incoming_order_requests_, strategy_runners_, strategy_map_,
                    simulation_running_, next_exchange_order_id_,
                    data_feed_ended_signal_pushed, pc, pending, pushed, run_no,
                    previous_run, callbacks, end_of_feed_log, queue_vars,
                    latency_calls >>

\* A market order of S1, or a limit order of S2 at a price that crosses
\* every quote.
BookRequest(side, limit, quantity) ==
    IF limit
    THEN OrderRequest("S2", 1, "EURUSD", side, "LIMIT",
                      IF side = "BUY" THEN MaxPx ELSE 1, quantity, 0)
    ELSE OrderRequest("S1", 1, "EURUSD", side, "MARKET", INVALID_PRICE, quantity, 0)

\* simulate_order_lifecycle on an order that consumes a level in part or in
\* whole, or finds it consumed.
match_on_book ==
    /\ main_event_pq_ = <<>>
    /\ Len(lifecycle_log) < MaxMatches
    /\ \E side \in {"BUY", "SELL"}, limit \in BOOLEAN, quantity \in 1..MaxQty + 1 :
         \E st \in {ApplyLifecycle([DispatcherCore EXCEPT !.next_id = 1],
                                   BookRequest(side, limit, quantity),
                                   current_simulation_time_)} :
             /\ main_event_pq_' = st.pq
             /\ order_books_' = st.books
             /\ lifecycle_log' = st.log
    /\ UNCHANGED << historical_data, latency_model_, csv_parser_,
                    incoming_order_requests_, strategy_runners_, strategy_map_,
                    current_simulation_time_, simulation_running_,
                    next_exchange_order_id_, data_feed_ended_signal_pushed, pc,
                    pending, pushed, run_no, previous_run, callbacks,
                    end_of_feed_log, queue_vars, latency_calls >>

SpecBook ==
    BookInit /\ [][dispatch_market_data \/ match_on_book \/ HarnessPop]_vars

(***************************************************************************)
(* C34.  update_quote sets each side independently: the bid becomes the    *)
(* quote's bid price and size when both are positive and is cleared,       *)
(* price and size, otherwise, and likewise the ask; whatever the book      *)
(* held before, a level partly consumed by matches included, it depends    *)
(* afterwards only on the quote.  A quote for another symbol and every     *)
(* trade event leave the book unchanged.                                   *)
(***************************************************************************)
C34_QuoteOverwritesBook ==
    [][(main_event_pq_ = <<>> /\ main_event_pq_' = <<>>) =>
         LET e == historical_data'[1]
             quoted ==
                 [best_bid_price_ |-> IF e.bid_price > 0 /\ e.bid_size > 0
                                      THEN Some(e.bid_price) ELSE Nullopt,
                  best_bid_size_  |-> IF e.bid_price > 0 /\ e.bid_size > 0
                                      THEN Some(e.bid_size) ELSE Nullopt,
                  best_ask_price_ |-> IF e.ask_price > 0 /\ e.ask_size > 0
                                      THEN Some(e.ask_price) ELSE Nullopt,
                  best_ask_size_  |-> IF e.ask_price > 0 /\ e.ask_size > 0
                                      THEN Some(e.ask_size) ELSE Nullopt]
         IN  /\ Len(historical_data') = 1
             /\ e.type = "TRADE" => order_books_' = order_books_
             /\ e.type = "QUOTE" =>
                  \A sym \in Symbols :
                      /\ order_books_'[sym] =
                             IF sym = e.symbol THEN quoted ELSE order_books_[sym]
                      /\ sym # e.symbol =>
                             update_quote(order_books_[sym], sym, e) = order_books_[sym]
       ]_vars

\* A quote with a bid and no ask dispatched after a quote of the other
\* symbol: the bid is set, the ask is cleared, the other book is kept.
C34_Witness ==
    /\ Len(historical_data) = 1
    /\ historical_data[1].type = "QUOTE"
    /\ historical_data[1].symbol = "EURUSD"
    /\ historical_data[1].ask_size = 0
    /\ lifecycle_log = <<>>
    /\ order_books_["EURUSD"].best_bid_size_ = Some(MaxQty)
    /\ order_books_["EURUSD"].best_ask_size_ = Nullopt
    /\ order_books_["GBPUSD"].best_ask_size_ = Some(MaxQty)

(***************************************************************************)
(* C35.  Ack routing: with any number of registered strategies, an         *)
(* ORDER_ACK event popped from the MEPQ is pushed into the mailbox of the  *)
(* strategy whose id is the event's strategy_id and into no other          *)
(* mailbox, and the dispatch loop continues.                               *)
(***************************************************************************)
C35_AckRoutedToItsStrategy ==
    [][(/\ pc = "loop"
        /\ pending = <<>>
        /\ pending' # <<>>
        /\ Head(pending').event.type = "ORDER_ACK") =>
          /\ pc' = "push"
          /\ Len(pending') = 1
          /\ strategy_runners_[pending'[1].runner].id
                 = pending'[1].event.strategy_id]_vars

(***************************************************************************)
(* C36.  Handling a PROCESS_ORDER_REQUESTS event drains the order request  *)
(* queue and then schedules a new PROCESS_ORDER_REQUESTS event at          *)
(* current_simulation_time_ plus 10 ms if and only if the MEPQ is not      *)
(* empty at that point; so at most one PROCESS_ORDER_REQUESTS event is     *)
(* pending in the MEPQ at any time, and none is pending when it would be   *)
(* alone.                                                                  *)
(***************************************************************************)
\* The positions of the PROCESS_ORDER_REQUESTS events in a queue.
PendingChecks(pq) ==
    { i \in 1..Len(pq) : /\ pq[i].type = "SIM_CONTROL_DISPATCHER"
                         /\ pq[i].control_type = "PROCESS_ORDER_REQUESTS" }

C37_LoopExitsDrained ==
    /\ [][(pc = "loop" /\ pc' = "shutdown") =>
            /\ main_event_pq_ = <<>>
            /\ data_feed_ended_signal_pushed
            /\ incoming_order_requests_.queue_ = <<>>
            /\ ~simulation_running_']_vars
    /\ [](pc \in {"shutdown", "done"} =>
            main_event_pq_ = <<>> /\ data_feed_ended_signal_pushed)

\* The loop left after an order was simulated and its events were popped.
C37_Witness ==
    /\ pc = "shutdown"
    /\ main_event_pq_ = <<>>
    /\ Len(lifecycle_log) = 1
    /\ lifecycle_log[1].fill_ack # <<>>

(***************************************************************************)
(* C38.  Every order request a strategy submits from one of its callbacks  *)
(* is popped from the order request queue and processed by                 *)
(* simulate_order_lifecycle before run returns: the dispatch loop never    *)
(* exits while a strategy that has received an event may still submit an   *)
(* order in response to it.                                                *)
(***************************************************************************)
C38_SubmittedOrdersProcessed ==
    pc = "done" =>
        /\ incoming_order_requests_.queue_ = <<>>
        /\ \A r \in 1..Len(strategy_runners_) :
               strategy_runners_[r].strategy_instance.eurusd_order_sent_ =>
                   \E k \in 1..Len(lifecycle_log) :
                       lifecycle_log[k].request.strategy_id = strategy_runners_[r].id

(***************************************************************************)
(* C39.  The dispatch thread never blocks forever in a push to a strategy  *)
(* mailbox: whenever it pushes into a full bounded mailbox, during a       *)
(* broadcast, ack routing or shutdown_strategies, the mailbox is already   *)
(* closed or its worker is still consuming, even after the worker has      *)
(* left its loop on a STRATEGY_SHUTDOWN event.                             *)
(***************************************************************************)
C39_PushNeverBlocksForever ==
    (pc \in {"push", "shutdown"} /\ pending # <<>>) =>
        LET runner == strategy_runners_[Head(pending).runner]
            q == runner.input_queue
        IN  (q.max_size_ > 0 /\ Len(q.queue_) >= q.max_size_) =>
                \/ is_shutdown(q)
                \/ runner.thread \notin {"on_shutdown", "finished"}

(***************************************************************************)
(* C40.  Liquidity conservation: for each side of a symbol's book, the     *)
(* fill quantities of all the orders, of any strategy, market or           *)
(* aggressive limit, matched against that side between two consecutive     *)
(* quote updates never add up to more than the size the earlier update     *)
(* quoted; and whenever a side's price is present its size is present and  *)
(* strictly positive.                                                      *)
(***************************************************************************)
\* The quantity filled by the orders of one side in a history of calls.
RECURSIVE FilledOnSide(_, _)
FilledOnSide(log, side) ==
    IF log = <<>> THEN 0
    ELSE FilledOnSide(Tail(log), side)
         + (IF Head(log).request.side = side /\ Head(log).fill_ack # <<>>
            THEN Head(log).fill_ack[1].last_filled_quantity ELSE 0)

C40_LiquidityConserved ==
    /\ lifecycle_log # <<>> =>
         LET quoted == lifecycle_log[1].book_before
             last == historical_data[1]
         IN  /\ FilledOnSide(lifecycle_log, "BUY")
                    <= IF quoted.best_ask_size_.has THEN quoted.best_ask_size_.val ELSE 0
             /\ FilledOnSide(lifecycle_log, "SELL")
                    <= IF quoted.best_bid_size_.has THEN quoted.best_bid_size_.val ELSE 0
             /\ (/\ historical_data # <<>>
                 /\ last.type = "QUOTE"
                 /\ last.symbol = "EURUSD") =>
                    /\ FilledOnSide(lifecycle_log, "BUY")
                         <= IF last.ask_price > 0 THEN last.ask_size ELSE 0
                    /\ FilledOnSide(lifecycle_log, "SELL")
                         <= IF last.bid_price > 0 THEN last.bid_size ELSE 0
    /\ \A sym \in Symbols :
         /\ order_books_[sym].best_ask_price_.has =>
                /\ order_books_[sym].best_ask_size_.has
                /\ order_books_[sym].best_ask_size_.val > 0
         /\ order_books_[sym].best_bid_price_.has =>
                /\ order_books_[sym].best_bid_size_.has
                /\ order_books_[sym].best_bid_size_.val > 0

\* Two strategies buy from one quote: the first takes part of the ask, the
\* second asks for more than is left and gets the rest.
C40_Witness ==
    /\ Len(lifecycle_log) = 2
    /\ historical_data # <<>>
    /\ historical_data[1].type = "QUOTE"
    /\ historical_data[1].symbol = "EURUSD"
    /\ lifecycle_log[1].request.strategy_id # lifecycle_log[2].request.strategy_id
    /\ lifecycle_log[1].request.side = "BUY"
    /\ lifecycle_log[2].request.side = "BUY"
    /\ lifecycle_log[2].request.quantity = MaxQty + 1
    /\ lifecycle_log[2].fill_ack # <<>>
    /\ FilledOnSide(lifecycle_log, "BUY") = historical_data[1].ask_size

====
